---- MODULE Spec2Model ----
(***************************************************************************)
(* claude-history-tool: the session index built by getChatSessions         *)
(* (src/main/getChatSessions.ts) and the session view resolved by          *)
(* ChatSessionView / MessageCard (src/components).                         *)
(***************************************************************************)
EXTENDS Integers, Sequences, FiniteSets, TLC

(***************************************************************************)
(* Bounds of the model.                                                    *)
(***************************************************************************)
\* project directories listed under the root
MaxDirs == 2
\* .jsonl files of one scan, over all project directories
MaxFiles == 3
\* records of a viewed session
MaxMessages == 2
\* content units of a viewed session, over all its records
MaxUnits == 3
\* content units of a record rendered on its own
MaxCardUnits == 2
\* records of an exported session
MaxExportMessages == 2
\* records of firstMessages handed to getFirstUserMessage
MaxPreviewMessages == 3
\* .jsonl files under the root that two overlapping scans read
MaxSharedFiles == 2
\* sessions selected one after the other in one mounted session view
MaxSelections == 3
\* sessionTitle.slice(0, 50) of the default file name
FilenameCut == 50

(***************************************************************************)
(* JavaScript values.                                                      *)
(***************************************************************************)
\* a property that is absent from a parsed object
Undefined == "undefined"
\* a property that holds a number instead of a string
NumberValue == "<number>"
\* JavaScript null: JSON.parse("null"), and the initial lastMessage
JsNull == [kind |-> "null"]

\* !v for the property values of the model
Falsy(v) == v \in {Undefined, ""}
\* typeof v === 'string'
IsString(v) == v \notin {Undefined, NumberValue}

\* new Date(ts).getTime(): the instant of an ISO-8601 text, NaN for any other
\* text and for undefined
IsoTime == [t \in {"2024-01-01T00:00:00Z", "2024-01-02T00:00:00Z",
                   "2024-01-02T01:00:00+01:00", "2024-01-03T00:00:00Z"} |->
              CASE t = "2024-01-01T00:00:00Z" -> 1
                [] t = "2024-01-02T00:00:00Z" -> 2
                [] t = "2024-01-02T01:00:00+01:00" -> 2
                [] t = "2024-01-03T00:00:00Z" -> 3]
NaN == [nan |-> TRUE, t |-> 0]
Num(n) == [nan |-> FALSE, t |-> n]
DateGetTime(ts) == IF ts \in DOMAIN IsoTime THEN Num(IsoTime[ts]) ELSE NaN
\* new Date(ts || 0).getTime(): a falsy timestamp is the epoch
DateGetTimeOrEpoch(ts) == IF Falsy(ts) THEN Num(0) ELSE DateGetTime(ts)

T1 == "2024-01-01T00:00:00Z"
T2 == "2024-01-02T00:00:00Z"
T2b == "2024-01-02T01:00:00+01:00"
T3 == "2024-01-03T00:00:00Z"
Garbage == "not a date"

(***************************************************************************)
(* Log files. A file is its lines; a line is blank (empty after trim), a   *)
(* text JSON.parse rejects, or a JSON text with the value it parses to.    *)
(***************************************************************************)
Blank == [kind |-> "blank"]
Bad == [kind |-> "bad"]
Json(v) == [kind |-> "json", value |-> v]

\* a string as its characters
Chars(n) == [i \in 1..n |-> "x"]
StringContent(s) == [t |-> "string", s |-> s]
NoContent == [t |-> "undefined"]

\* a parsed record (ChatMessage); message.content is flattened to content
Rec(sid, ts, ty) ==
  [kind |-> "rec", sessionId |-> sid, timestamp |-> ts, type |-> ty,
   isMeta |-> FALSE, internalMessageType |-> Undefined,
   content |-> StringContent(Chars(2)), cwd |-> "/w"]

\* n lines that fail to parse
BadLines(n) == [i \in 1..n |-> Bad]

\* a file: its lines, and whether the read stream fails before it ends
File(lines) == [lines |-> lines, ioError |-> FALSE]
Unreadable(lines) == [lines |-> lines, ioError |-> TRUE]

(***************************************************************************)
(* getFirstUserMessage                                                     *)
(***************************************************************************)
PreviewLimit == 100
Ellipsis == <<".", ".", ".">>
NoUserMessageFound ==
  <<"N", "o", " ", "u", "s", "e", "r", " ", "m", "e", "s", "s", "a", "g", "e",
    " ", "f", "o", "u", "n", "d">>

\* msg.type === 'user' && !msg.isMeta && !msg.internalMessageType
IsFirstUserCandidate(msg) ==
  msg.type = "user" /\ ~msg.isMeta /\ Falsy(msg.internalMessageType)

\* messages.find(...): the callback reads msg.type, a TypeError when msg is null
RECURSIVE FindFirstUser(_, _)
FindFirstUser(messages, i) ==
  IF i > Len(messages) THEN [threw |-> FALSE, found |-> FALSE, msg |-> JsNull]
  ELSE IF messages[i] = JsNull THEN [threw |-> TRUE, found |-> FALSE, msg |-> JsNull]
  ELSE IF IsFirstUserCandidate(messages[i])
       THEN [threw |-> FALSE, found |-> TRUE, msg |-> messages[i]]
       ELSE FindFirstUser(messages, i + 1)

\* content.slice(0, 100) + (content.length > 100 ? '...' : '')
Preview(s) ==
  SubSeq(s, 1, IF Len(s) < PreviewLimit THEN Len(s) ELSE PreviewLimit)
    \o (IF Len(s) > PreviewLimit THEN Ellipsis ELSE <<>>)

\* [threw, value]: the preview, or the TypeError of find's callback
GetFirstUserMessage(messages) ==
  LET f == FindFirstUser(messages, 1) IN
  IF f.threw THEN [threw |-> TRUE, value |-> <<>>]
  ELSE IF f.found /\ f.msg.content.t = "string"
       THEN [threw |-> FALSE, value |-> Preview(f.msg.content.s)]
       ELSE [threw |-> FALSE, value |-> NoUserMessageFound]

(***************************************************************************)
(* readSessionMetadata                                                     *)
(***************************************************************************)
maxFirstLines == 10

\* the state of the promise's closure before the first line
NewMetadata == [firstMessages |-> <<>>, lastMessage |-> JsNull, lineCount |-> 0]

\* JSON.parse(line) of a line that parses
JsonParse(line) == line.value

\* mutant: every parsed record is kept
MutWithinFirstLinesAlways(lineCount) == TRUE

\* lineCount <= maxFirstLines, lineCount being already incremented
WithinFirstLines(lineCount) == lineCount <= maxFirstLines

\* mutant: only the lines that parse are counted
MutOnLineCountsParsed(m, line) ==
  IF line.kind # "json" THEN m
  ELSE [firstMessages |-> IF WithinFirstLines(m.lineCount + 1)
                          THEN Append(m.firstMessages, JsonParse(line))
                          ELSE m.firstMessages,
        lastMessage |-> JsonParse(line),
        lineCount |-> m.lineCount + 1]

\* rl.on('line')
OnLine(m, line) ==
  IF line.kind = "blank" THEN m
  ELSE LET n == m.lineCount + 1 IN
       IF line.kind = "bad"
       THEN [m EXCEPT !.lineCount = n]
       ELSE [firstMessages |-> IF WithinFirstLines(n)
                               THEN Append(m.firstMessages, JsonParse(line))
                               ELSE m.firstMessages,
             lastMessage |-> JsonParse(line),
             lineCount |-> n]

\* the 'line' events of lines[i..], in file order
RECURSIVE ReadLines(_, _, _)
ReadLines(m, lines, i) ==
  IF i > Len(lines) THEN m ELSE ReadLines(OnLine(m, lines[i]), lines, i + 1)

\* rl.on('close')
OnClose(m) ==
  IF m.lineCount = 0 \/ Len(m.firstMessages) = 0 THEN JsNull ELSE m

\* rl.on('error') resolves null; otherwise the lines, then 'close'
ReadSessionMetadata(file) ==
  IF file.ioError THEN JsNull
  ELSE OnClose(ReadLines(NewMetadata, file.lines, 1))

(***************************************************************************)
(* The log files a scan may meet.                                          *)
(***************************************************************************)
User(sid, ts) == Rec(sid, ts, "user")
Assistant(sid, ts) == Rec(sid, ts, "assistant")

Files ==
  { \* no non-blank line
    File(<<Blank>>),
    \* ten unparsable lines, then a line that parses
    File(BadLines(maxFirstLines) \o <<Json(User("s1", T3))>>),
    \* nine unparsable lines, then the header: 10 lines of session s1
    File(BadLines(maxFirstLines - 1) \o <<Json(User("s1", T1))>>),
    \* session s1 again, with blank and unparsable lines among its records
    File(<<Json(User("s1", T2)), Bad, Blank, Json(Assistant("s1", T3)), Bad>>),
    \* a header that is no user message, followed by a JSON null
    File(<<Json(Assistant("s1", T1)), Json(JsNull)>>),
    \* a JSON null as the first parsed line
    File(<<Json(JsNull), Json(User("s2", T2))>>),
    \* a header without sessionId
    File(<<Json(User(Undefined, T1))>>),
    \* session s2, its timestamp in another time zone, and a last record
    \* without timestamp
    File(<<Json(User("s2", T2b)), Json(Assistant("s2", Undefined))>>),
    \* a timestamp that is no date
    File(<<Json(User("s3", Garbage))>>),
    \* a file whose stream fails
    Unreadable(<<Json(User("s3", T3))>>) }

(***************************************************************************)
(* getChatSessions: one file of the inner loop                             *)
(***************************************************************************)
\* mutant: the seen set is never consulted
MutAlreadySeenNever(seen, sessionId) == FALSE

\* seenSessionIds.has(sessionId)
AlreadySeen(seen, sessionId) == sessionId \in seen

\* !sessionId || typeof sessionId !== 'string'
NoSessionId(sessionId) == Falsy(sessionId) \/ ~IsString(sessionId)

\* lastMessage?.timestamp || firstMessages[0].timestamp
LastMessageTimestamp(metadata) ==
  LET last == IF metadata.lastMessage = JsNull THEN Undefined
              ELSE metadata.lastMessage.timestamp
  IN IF Falsy(last) THEN metadata.firstMessages[1].timestamp ELSE last

\* the summary pushed for an accepted file; src, the place of the file in the
\* scan, is a history field the program does not hold
Summary(metadata, sessionId, projectDir, preview, src) ==
  [sessionId |-> sessionId,
   firstMessageTimestamp |-> metadata.firstMessages[1].timestamp,
   lastMessageTimestamp |-> LastMessageTimestamp(metadata),
   projectPath |-> projectDir,
   messageCount |-> metadata.lineCount,
   firstUserMessage |-> preview,
   cwd |-> metadata.firstMessages[1].cwd,
   src |-> src]

\* the body of the try block for one file: the seen set and the sessions of
\* the directory after it, and how the file ended
FileStep(seen, sess, file, projectDir, src) ==
  LET metadata == ReadSessionMetadata(file) IN
  IF metadata = JsNull
  THEN [seen |-> seen, sessions |-> sess, outcome |-> "no-metadata"]
  ELSE IF metadata.firstMessages[1] = JsNull
  THEN \* firstMessages[0].sessionId throws, the catch block skips the file
       [seen |-> seen, sessions |-> sess, outcome |-> "error"]
  ELSE LET sessionId == metadata.firstMessages[1].sessionId IN
  IF NoSessionId(sessionId)
  THEN [seen |-> seen, sessions |-> sess, outcome |-> "no-session-id"]
  ELSE IF AlreadySeen(seen, sessionId)
  THEN [seen |-> seen, sessions |-> sess, outcome |-> "duplicate"]
  ELSE LET preview == GetFirstUserMessage(metadata.firstMessages) IN
  IF preview.threw
  THEN \* thrown while the summary is built, after seenSessionIds.add
       [seen |-> seen \cup {sessionId}, sessions |-> sess, outcome |-> "error"]
  ELSE [seen |-> seen \cup {sessionId},
        sessions |-> Append(sess, Summary(metadata, sessionId, projectDir,
                                          preview.value, src)),
        outcome |-> "accepted"]

(***************************************************************************)
(* Array.prototype.sort with a comparator b - a over times                 *)
(***************************************************************************)
\* the comparator's result for keys ka, kb: kb - ka, and NaN counts as +0
Compare(ka, kb) == IF ka.nan \/ kb.nan THEN 0 ELSE kb.t - ka.t

Perms(n) == {p \in [1..n -> 1..n] : \A i, j \in 1..n : i # j => p[i] # p[j]}

\* whether the comparator is consistent on elements with these keys: being equal under it
\* is transitive (a NaN key is equal to every key)
ConsistentComparator(keys) ==
  \A i, j, k \in DOMAIN keys :
    Compare(keys[i], keys[j]) = 0 /\ Compare(keys[j], keys[k]) = 0
      => Compare(keys[i], keys[k]) = 0

\* the orders sort may leave seq in, keys[i] being the time the comparator
\* computes for seq[i]: the stable order when the comparator is
\* consistent, an implementation-defined order when it is not
SortOutcomes(seq, keys) ==
  LET n == Len(seq)
      sorted(p) == \A i, j \in 1..n :
                     i < j => \/ Compare(keys[p[i]], keys[p[j]]) < 0
                              \/ /\ Compare(keys[p[i]], keys[p[j]]) = 0
                                 /\ p[i] < p[j]
  IN IF ConsistentComparator(keys)
     THEN {[i \in 1..n |-> seq[p[i]]] : p \in {q \in Perms(n) : sorted(q)}}
     ELSE {[i \in 1..n |-> seq[p[i]]] : p \in Perms(n)}

\* new Date(s.lastMessageTimestamp).getTime()
SessionSortKey(s) == DateGetTime(s.lastMessageTimestamp)
\* new Date(p.sessions[0]?.lastMessageTimestamp || 0).getTime()
ProjectSortKey(p) ==
  IF Len(p.sessions) = 0 THEN Num(0)
  ELSE DateGetTimeOrEpoch(p.sessions[1].lastMessageTimestamp)

SortSessions(sess) ==
  SortOutcomes(sess, [i \in DOMAIN sess |-> SessionSortKey(sess[i])])
SortProjects(projs) ==
  SortOutcomes(projs, [i \in DOMAIN projs |-> ProjectSortKey(projs[i])])

(***************************************************************************)
(* The records of a viewed session. content stands for                     *)
(* message.message?.content: a string, an array of content units, or       *)
(* absent. A content unit is a string, or an object with a type; absent    *)
(* properties are Undefined, absent texts are empty. A malformed log may   *)
(* also hold null or a number in the place of a unit.                      *)
(***************************************************************************)
ArrayContent(items) == [t |-> "array", items |-> items]

\* the input of a tool_use: absent, or an object given by its entries
\* <<key, value>> in insertion order
NoInput == [kind |-> "undefined", entries |-> <<>>]
Input(entries) == [kind |-> "object", entries |-> entries]

Unit(type, id, name, toolUseId, content, text) ==
  [kind |-> "object", type |-> type, id |-> id, name |-> name,
   tool_use_id |-> toolUseId, content |-> content, text |-> text,
   input |-> NoInput]
\* a unit that is no object: a string, null, or a number
Scalar(kind, s) ==
  [kind |-> kind, type |-> Undefined, id |-> Undefined, name |-> <<>>,
   tool_use_id |-> Undefined, content |-> Undefined, text |-> s,
   input |-> NoInput]
StringUnit(s) == Scalar("string", s)
NullUnit == Scalar("null", <<>>)
NumberUnit == Scalar("number", <<>>)

ToolUse(id, name) == Unit("tool_use", id, name, Undefined, Undefined, <<>>)
ToolResult(toolUseId, content) ==
  Unit("tool_result", Undefined, <<>>, toolUseId, content, <<>>)
Text(s) == Unit("text", Undefined, <<>>, Undefined, Undefined, s)
Thinking(s) == Unit("thinking", Undefined, <<>>, Undefined, Undefined, s)
ToolUseWith(id, name, input) == [ToolUse(id, name) EXCEPT !.input = input]
\* an object whose type is none of the known ones
Other == Unit("image", Undefined, <<>>, Undefined, Undefined, <<>>)

Message(type, content) ==
  [type |-> type, isMeta |-> FALSE, internalMessageType |-> Undefined,
   content |-> content]

IsArray(content) == content.t = "array"
IsObject(item) == item.kind = "object"
IsStringUnit(item) == item.kind = "string"
\* reading a property of null throws a TypeError
IsNull(item) == item.kind = "null"

\* the units of a record's content array, none when content is no array
UnitsOf(message) == IF IsArray(message.content) THEN message.content.items ELSE <<>>

(***************************************************************************)
(* ChatSessionView: toolResultMap, aggregatedToolResultIds,                *)
(* isMessageFullyAggregated, filteredMessages                              *)
(***************************************************************************)
\* map.set(key, value)
MapSet(map, key, value) ==
  [k \in DOMAIN map \cup {key} |-> IF k = key THEN value ELSE map[k]]
EmptyMap == [k \in {} |-> Undefined]

\* item.type === 'tool_result' && item.tool_use_id
IsIdentifiedResult(item) ==
  IsObject(item) /\ item.type = "tool_result" /\ ~Falsy(item.tool_use_id)
\* item.type === 'tool_use' && item.id
IsIdentifiedToolUse(item) ==
  IsObject(item) /\ item.type = "tool_use" /\ ~Falsy(item.id)

\* mutant: an id already recorded keeps its entry
MutToolResultMapSetFirst(map, item) ==
  IF IsIdentifiedResult(item) /\ item.tool_use_id \notin DOMAIN map
  THEN MapSet(map, item.tool_use_id,
              [tool_use_id |-> item.tool_use_id, content |-> item.content])
  ELSE map

\* one unit of the scan that builds toolResultMap
ToolResultMapSet(map, item) ==
  IF IsIdentifiedResult(item)
  THEN MapSet(map, item.tool_use_id,
              [tool_use_id |-> item.tool_use_id, content |-> item.content])
  ELSE map

RECURSIVE ToolResultMapUnits(_, _, _)
ToolResultMapUnits(map, items, k) ==
  IF k > Len(items) THEN map
  ELSE ToolResultMapUnits(ToolResultMapSet(map, items[k]), items, k + 1)

RECURSIVE ToolResultMapFrom(_, _, _)
ToolResultMapFrom(map, msgs, i) ==
  IF i > Len(msgs) THEN map
  ELSE ToolResultMapFrom(ToolResultMapUnits(map, UnitsOf(msgs[i]), 1), msgs, i + 1)

\* toolResultMap: tool_use_id -> tool_result content, over all records
ToolResultMap(msgs) == ToolResultMapFrom(EmptyMap, msgs, 1)

MutAggregatedAllKeys(msgs, map) == DOMAIN map
\* aggregatedToolResultIds: the ids of the tool_use units that have a result
\* in the map
AggregatedToolResultIds(msgs, map) ==
  {id \in DOMAIN map :
     \E i \in DOMAIN msgs : \E k \in DOMAIN UnitsOf(msgs[i]) :
       IsIdentifiedToolUse(UnitsOf(msgs[i])[k]) /\ UnitsOf(msgs[i])[k].id = id}

\* mutant: other content does not keep a record
MutFullyAggregatedIgnoresOther(message, aggregated) ==
  /\ IsArray(message.content)
  /\ \E k \in DOMAIN message.content.items :
       IsIdentifiedResult(message.content.items[k])
  /\ \A k \in DOMAIN message.content.items :
       (IsObject(message.content.items[k])
        /\ message.content.items[k].type = "tool_result")
       => message.content.items[k].tool_use_id \in aggregated

\* isMessageFullyAggregated
IsMessageFullyAggregated(message, aggregated) ==
  IF ~IsArray(message.content) THEN FALSE
  ELSE LET content == message.content.items
           toolResultItems ==
             SelectSeq(content, LAMBDA item :
                         IsObject(item) /\ item.type = "tool_result")
           allAggregated ==
             \A k \in DOMAIN toolResultItems :
               /\ ~Falsy(toolResultItems[k].tool_use_id)
               /\ toolResultItems[k].tool_use_id \in aggregated
           hasOtherContent ==
             \E k \in DOMAIN content :
               \/ IsStringUnit(content[k])
               \/ IsObject(content[k]) /\ content[k].type # "tool_result"
       IN IF Len(toolResultItems) = 0 THEN FALSE
          ELSE allAggregated /\ ~hasOtherContent

\* strings are sequences of characters
Space == <<" ">>
LowerCase == [c \in {"B", "H"} |-> IF c = "B" THEN "b" ELSE "h"]
ToLowerCase(str) ==
  [i \in DOMAIN str |-> IF str[i] \in DOMAIN LowerCase THEN LowerCase[str[i]]
                        ELSE str[i]]
\* str.includes(part)
Includes(str, part) ==
  \E off \in 0..(Len(str) - Len(part)) :
    \A i \in DOMAIN part : str[off + i] = part[i]
\* str.trim() is the empty string
Whitespace == {" ", "\n", "\t"}
IsBlankString(str) == \A i \in DOMAIN str : str[i] \in Whitespace

(***************************************************************************)
(* CodeBlock: parseMarkdownCodeBlocks, the regular expression              *)
(* (three backticks, an optional word, a line feed, then as little as may  *)
(* be up to the next three backticks), read on the characters of the text  *)
(***************************************************************************)
\* \w
WordChars ==
  {"a", "b", "c", "d", "e", "f", "g", "h", "i", "j", "k", "l", "m", "n", "o",
   "p", "q", "r", "s", "t", "u", "v", "w", "x", "y", "z", "B", "H", "U", "_"}

\* the backtick character
Backtick == "<backtick>"
IsFenceAt(text, i) ==
  /\ i + 2 <= Len(text)
  /\ text[i] = Backtick /\ text[i + 1] = Backtick /\ text[i + 2] = Backtick

\* the first place from i on that holds no word character
RECURSIVE WordEnd(_, _)
WordEnd(text, i) ==
  IF i <= Len(text) /\ text[i] \in WordChars THEN WordEnd(text, i + 1) ELSE i

\* the first fence from i on, 0 when there is none
RECURSIVE NextFence(_, _)
NextFence(text, i) ==
  IF i > Len(text) THEN 0
  ELSE IF IsFenceAt(text, i) THEN i ELSE NextFence(text, i + 1)

\* the match of the expression that starts at i, if there is one
MatchAt(text, i) ==
  LET w == WordEnd(text, i + 3)
      close == NextFence(text, w + 1)
  IN IF IsFenceAt(text, i) /\ w <= Len(text) /\ text[w] = "\n" /\ close > 0
     THEN [ok |-> TRUE, language |-> SubSeq(text, i + 3, w - 1),
           content |-> SubSeq(text, w + 1, close - 1), next |-> close + 3]
     ELSE [ok |-> FALSE, language |-> <<>>, content |-> <<>>, next |-> i]

\* codeBlockRegex.exec: the first place from i on with a match, 0 for null
RECURSIVE Exec(_, _)
Exec(text, i) ==
  IF i > Len(text) THEN 0
  ELSE IF MatchAt(text, i).ok THEN i ELSE Exec(text, i + 1)

TextBlock(content) == [type |-> "text", content |-> content, language |-> <<>>]
\* result.push of a text block, under if (....trim())
PushText(result, content) ==
  IF IsBlankString(content) THEN result ELSE Append(result, TextBlock(content))

\* the while loop and what follows it; lastIndex is the next place to read
RECURSIVE CodeBlocksFrom(_, _, _)
CodeBlocksFrom(text, lastIndex, result) ==
  LET at == Exec(text, lastIndex) IN
  IF at > 0
  THEN LET before == IF at > lastIndex
                     THEN PushText(result, SubSeq(text, lastIndex, at - 1))
                     ELSE result
           match == MatchAt(text, at)
       IN CodeBlocksFrom(text, match.next,
                         Append(before, [type |-> "code", content |-> match.content,
                                         language |-> match.language]))
  ELSE LET rest == IF lastIndex <= Len(text)
                   THEN PushText(result, SubSeq(text, lastIndex, Len(text)))
                   ELSE result
       IN IF Len(rest) = 0 THEN PushText(rest, text) ELSE rest

MutNoTextBlocks(text) == <<>>
\* parseMarkdownCodeBlocks
ParseMarkdownCodeBlocks(text) == CodeBlocksFrom(text, 1, <<>>)

\* renderTextWithCodeBlocks in a fragment of textContent
TextFragment(text) ==
  [block |-> "text", text |-> text, blocks |-> ParseMarkdownCodeBlocks(text)]

RECURSIVE Join(_, _)
Join(strs, k) ==
  IF k > Len(strs) THEN <<>>
  ELSE IF k = Len(strs) THEN strs[k]
  ELSE strs[k] \o Space \o Join(strs, k + 1)

\* getMessageText
GetMessageText(message) ==
  IF message.content.t = "string" THEN message.content.s
  ELSE IF IsArray(message.content)
  THEN Join([k \in DOMAIN message.content.items |->
               LET item == message.content.items[k] IN
               IF IsStringUnit(item) THEN item.text
               ELSE IF item.type = "text" THEN item.text
               ELSE IF item.type = "tool_use" THEN item.name
               ELSE <<>>], 1)
  ELSE <<>>

\* filteredMessages, as the places of the kept records in msgs
FilteredMessages(msgs, term) ==
  LET aggregated == AggregatedToolResultIds(msgs, ToolResultMap(msgs))
      places == [i \in DOMAIN msgs |-> i]
      shown(i) == ~IsMessageFullyAggregated(msgs[i], aggregated)
      matches(i) == Includes(ToLowerCase(GetMessageText(msgs[i])), ToLowerCase(term))
  IN IF IsBlankString(term)
     THEN SelectSeq(places, shown)
     ELSE SelectSeq(places, LAMBDA i : shown(i) /\ matches(i))

(***************************************************************************)
(* MessageCard: parseMessage                                               *)
(***************************************************************************)
\* first pass: the ids of the tool_use units of this record
LocalToolUseIds(items) ==
  {items[k].id : k \in {j \in DOMAIN items : IsIdentifiedToolUse(items[j])}}

\* first pass: tool_use_id -> tool_result of this record
RECURSIVE InternalToolResultMap(_, _, _)
InternalToolResultMap(map, items, k) ==
  IF k > Len(items) THEN map
  ELSE InternalToolResultMap(ToolResultMapSet(map, items[k]), items, k + 1)

MutInExternalMapNever(toolUseId, external) == FALSE
\* externalToolResults?.has(toolUseId): the result is shown with its tool_use
InExternalMap(toolUseId, external) == toolUseId \in DOMAIN external

\* internalToolResultMap.get(toolId) || externalToolResults?.get(toolId)
MatchingResult(toolId, internal, external) ==
  IF toolId \in DOMAIN internal
  THEN [found |-> TRUE, content |-> internal[toolId].content]
  ELSE IF toolId \in DOMAIN external
  THEN [found |-> TRUE, content |-> external[toolId].content]
  ELSE [found |-> FALSE, content |-> Undefined]

Unknown == <<"U", "n", "k", "n", "o", "w", "n">>

\* the parse before the first unit
NewParse(message) ==
  [textContent |-> <<>>, toolUseContent |-> <<>>,
   badgeType |-> IF message.type = "user" THEN "user" ELSE "assistant",
   toolNames |-> <<>>, toolInfos |-> <<>>, processedToolIds |-> {},
   threw |-> FALSE]

\* mutant: processedToolIds is not consulted, every identified unit is pushed
MutParseToolUseEveryTime(st, item, k, internal, external) ==
  LET toolName == IF Len(item.name) = 0 THEN Unknown ELSE item.name
      named == [st EXCEPT
                  !.toolNames = IF Len(item.name) = 0 THEN @ ELSE Append(@, item.name),
                  !.toolInfos = Append(@, [name |-> toolName]),
                  !.badgeType = "tool"]
      result == MatchingResult(item.id, internal, external)
  IN IF ~Falsy(item.id)
     THEN [named EXCEPT
             !.processedToolIds = @ \cup {item.id},
             !.toolUseContent =
               Append(@, [block |-> "tool", id |-> item.id, name |-> item.name,
                          hasResult |-> result.found, result |-> result.content,
                          itemIndex |-> k])]
     ELSE named

\* case 'tool_use'
ParseToolUse(st, item, k, internal, external) ==
  LET toolName == IF Len(item.name) = 0 THEN Unknown ELSE item.name
      named == [st EXCEPT
                  !.toolNames = IF Len(item.name) = 0 THEN @ ELSE Append(@, item.name),
                  !.toolInfos = Append(@, [name |-> toolName]),
                  !.badgeType = "tool"]
      result == MatchingResult(item.id, internal, external)
  IN IF ~Falsy(item.id) /\ item.id \notin st.processedToolIds
     THEN [named EXCEPT
             !.processedToolIds = @ \cup {item.id},
             !.toolUseContent =
               Append(@, [block |-> "tool", id |-> item.id, name |-> item.name,
                          hasResult |-> result.found, result |-> result.content,
                          itemIndex |-> k])]
     ELSE named

\* case 'tool_result'
ParseToolResult(st, item, k, localIds, external) ==
  LET toolUseId == item.tool_use_id IN
  IF ~Falsy(toolUseId) /\ InExternalMap(toolUseId, external) THEN st
  ELSE IF /\ ~Falsy(toolUseId)
          /\ toolUseId \notin localIds
          /\ toolUseId \notin st.processedToolIds
  THEN [st EXCEPT
          !.processedToolIds = @ \cup {toolUseId},
          !.toolUseContent =
            Append(@, [block |-> "result", id |-> toolUseId, name |-> <<>>,
                       hasResult |-> TRUE, result |-> item.content,
                       itemIndex |-> k]),
          !.badgeType = "tool-result"]
  ELSE st

\* one unit of the second pass; k is itemIndex
ParseUnit(st, item, k, localIds, internal, external) ==
  IF IsStringUnit(item)
  THEN [st EXCEPT !.textContent = Append(@, TextFragment(item.text))]
  \* switch (contentItem.type) on null
  ELSE IF IsNull(item) THEN [st EXCEPT !.threw = TRUE]
  ELSE IF item.type = "tool_use" THEN ParseToolUse(st, item, k, internal, external)
  ELSE IF item.type = "tool_result" THEN ParseToolResult(st, item, k, localIds, external)
  ELSE IF item.type = "text"
  THEN [st EXCEPT !.textContent = Append(@, TextFragment(item.text))]
  ELSE IF item.type = "thinking"
  THEN [st EXCEPT !.textContent = Append(@, [block |-> "thinking", text |-> item.text,
                                             blocks |-> <<>>]),
                  !.badgeType = "thinking"]
  ELSE st

RECURSIVE ParseUnits(_, _, _, _, _, _)
ParseUnits(st, items, k, localIds, internal, external) ==
  IF k > Len(items) \/ st.threw THEN st
  ELSE ParseUnits(ParseUnit(st, items[k], k, localIds, internal, external),
                  items, k + 1, localIds, internal, external)

\* mutant: the internalMessageType override comes last
MutFinalBadgeTypeOverMeta(message, badgeType) ==
  IF ~Falsy(message.internalMessageType)
  THEN (IF message.internalMessageType = "hook" THEN "hook" ELSE "internal")
  ELSE IF message.isMeta THEN "internal"
  ELSE badgeType

\* the badge after the internalMessageType and isMeta overrides
FinalBadge(message, badgeType) ==
  IF message.isMeta THEN "internal"
  ELSE IF ~Falsy(message.internalMessageType)
  THEN (IF message.internalMessageType = "hook" THEN "hook" ELSE "internal")
  ELSE badgeType

\* parseMessage(message, searchTerm, externalToolResults)
ParseMessage(message, external) ==
  LET st == IF message.content.t = "string"
            THEN [NewParse(message) EXCEPT
                    !.textContent = <<TextFragment(message.content.s)>>]
            ELSE IF IsArray(message.content)
            THEN ParseUnits(NewParse(message), message.content.items, 1,
                            LocalToolUseIds(message.content.items),
                            InternalToolResultMap(EmptyMap, message.content.items, 1),
                            external)
            ELSE NewParse(message)
  IN [textContent |-> st.textContent, toolUseContent |-> st.toolUseContent,
      badgeType |-> FinalBadge(message, st.badgeType),
      toolNames |-> st.toolNames, toolInfos |-> st.toolInfos,
      threw |-> st.threw]

\* the cards of the session view: for each kept record, its place in the
\* loaded list and its parse
SessionView(msgs, term) ==
  LET kept == FilteredMessages(msgs, term)
      map == ToolResultMap(msgs)
  IN [n \in DOMAIN kept |->
        [index |-> kept[n], parsed |-> ParseMessage(msgs[kept[n]], map)]]

(***************************************************************************)
(* The sessions a view may load.                                           *)
(***************************************************************************)
Hi == <<"H", "i">>
Bash == <<"B", "a", "s", "h">>

Units ==
  { ToolUse("t1", Bash),
    ToolResult("t1", "A"), ToolResult("t1", "B"),
    \* a result whose tool_use is in no record
    ToolResult("t2", "A"),
    \* a result that names no tool_use
    ToolResult(Undefined, "A"),
    Text(Hi) }

\* tool results and typed prompts come in user records, the rest in
\* assistant records
TypeOf(content) ==
  IF \/ content.t = "string"
     \/ IsArray(content) /\ \E k \in DOMAIN content.items :
                               content.items[k].type = "tool_result"
  THEN "user" ELSE "assistant"

\* the shape of a record's content: an array of len units, a string, absent
Shapes(n) ==
  {[t |-> "array", len |-> k] : k \in 0..n} \cup
  {[t |-> "string", len |-> 0], [t |-> "none", len |-> 0]}

\* the number of units of the records before record i
RECURSIVE UnitsBefore(_, _)
UnitsBefore(shape, i) ==
  IF i <= 1 THEN 0 ELSE UnitsBefore(shape, i - 1) + shape[i - 1].len

\* the session whose records have the given shapes and whose units, in
\* record order, are units
SessionOf(shape, units) ==
  [i \in DOMAIN shape |->
     LET content ==
           IF shape[i].t = "string" THEN StringContent(Hi)
           ELSE IF shape[i].t = "none" THEN NoContent
           ELSE ArrayContent([k \in 1..shape[i].len |->
                                units[UnitsBefore(shape, i) + k]])
     IN Message(TypeOf(content), content)]

SearchTerms == {<<>>, <<"h">>}

(***************************************************************************)
(* State                                                                   *)
(***************************************************************************)
VARIABLES
  pc,              \* where getChatSessions stands: idle, dirs, files, done
  tree,            \* history: by project directory, the files read so far
                   \* and how each ended
  projectDirs,     \* the number of listed project directories, named 1..n
  dirIdx,          \* the project directory of the outer loop
  files,           \* the number of .jsonl files listed in that directory
  fileIdx,         \* the file of the inner loop
  seenSessionIds,
  sessions,        \* the sessions accepted in the current directory
  projects,
  result,          \* the returned index
  messages,        \* ChatSessionView: the loaded records
  loading,
  searchTerm,
  request,         \* getSessionDetails: none, pending, settled
  card,            \* MessageCard: the record it shows, its parse, its state
  exportRun,       \* exportSession: where a call stands and what it did
  toolLabel,       \* getToolKeyParams: a call and the label it returned
  previewCall,     \* getFirstUserMessage: a call and the preview it returned
  disk,            \* the project directories two overlapping scans read
  scans,           \* by request, the locals of its getChatSessions call
  race             \* ChatSessionView whose session prop changes

scanVars == <<pc, tree, projectDirs, dirIdx, files, fileIdx, seenSessionIds,
              sessions, projects, result>>
viewVars == <<messages, loading, searchTerm, request>>
cardVars == <<card>>
exportVars == <<exportRun>>
labelVars == <<toolLabel>>
previewVars == <<previewCall>>
scansVars == <<disk, scans>>
raceVars == <<race>>
vars == <<scanVars, viewVars, cardVars, exportVars, labelVars, previewVars,
          scansVars, raceVars>>

\* useState: no records, loading, an empty search term
InitView ==
  /\ messages = <<>>
  /\ loading = TRUE
  /\ searchTerm = <<>>
  /\ request = "none"

\* files read so far in the scan
RECURSIVE FilesRead(_, _)
FilesRead(t, d) == IF d > Len(t) THEN 0 ELSE Len(t[d]) + FilesRead(t, d + 1)

InitScan ==
  /\ pc = "idle"
  /\ tree = <<>>
  /\ projectDirs = 0
  /\ dirIdx = 0
  /\ files = 0
  /\ fileIdx = 0
  /\ seenSessionIds = {}
  /\ sessions = <<>>
  /\ projects = <<>>
  /\ result = <<>>

\* no card is mounted, no export was asked for, no label was computed
NoCard == [mounted |-> FALSE]
NoExport == [pc |-> "idle"]
NoLabel == [called |-> FALSE]
NoPreview == [called |-> FALSE]
NoRace == [mounted |-> FALSE]
NoDisk == [exists |-> FALSE, dirs |-> <<>>]
InitCalls ==
  /\ card = NoCard
  /\ exportRun = NoExport
  /\ toolLabel = NoLabel
  /\ previewCall = NoPreview
  /\ disk = NoDisk
  /\ scans = <<>>
  /\ race = NoRace

Init == InitScan /\ InitView /\ InitCalls

\* the root directory does not exist: an empty index
MissingRoot ==
  /\ pc = "idle"
  /\ pc' = "done"
  /\ result' = <<>>
  /\ UNCHANGED <<tree, projectDirs, dirIdx, files, fileIdx, seenSessionIds,
                 sessions, projects>>
  /\ UNCHANGED <<viewVars, cardVars, exportVars, labelVars,
               previewVars, scansVars, raceVars>>

\* the root is listed; projects and seenSessionIds start empty
StartScan ==
  /\ pc = "idle"
  /\ \E n \in 0..MaxDirs : projectDirs' = n
  /\ dirIdx' = 1
  /\ projects' = <<>>
  /\ seenSessionIds' = {}
  /\ pc' = "dirs"
  /\ UNCHANGED <<tree, files, fileIdx, sessions, result>>
  /\ UNCHANGED <<viewVars, cardVars, exportVars, labelVars,
               previewVars, scansVars, raceVars>>

\* the next project directory is listed and its sessions start empty
EnterDir ==
  /\ pc = "dirs"
  /\ dirIdx <= projectDirs
  /\ \E n \in 0..(MaxFiles - FilesRead(tree, 1)) : files' = n
  /\ fileIdx' = 1
  /\ sessions' = <<>>
  /\ tree' = Append(tree, <<>>)
  /\ pc' = "files"
  /\ UNCHANGED <<projectDirs, dirIdx, seenSessionIds, projects, result>>
  /\ UNCHANGED <<viewVars, cardVars, exportVars, labelVars,
               previewVars, scansVars, raceVars>>

\* one file: read, then accepted or skipped
ProcessFile ==
  /\ pc = "files"
  /\ fileIdx <= files
  /\ \E f \in Files :
       LET r == FileStep(seenSessionIds, sessions, f, dirIdx, <<dirIdx, fileIdx>>)
       IN /\ seenSessionIds' = r.seen
          /\ sessions' = r.sessions
          /\ tree' = [tree EXCEPT ![dirIdx] =
                                 Append(@, [file |-> f, outcome |-> r.outcome])]
  /\ fileIdx' = fileIdx + 1
  /\ UNCHANGED <<pc, projectDirs, dirIdx, files, projects, result>>
  /\ UNCHANGED <<viewVars, cardVars, exportVars, labelVars,
               previewVars, scansVars, raceVars>>

\* mutant: every directory is pushed
MutHasSessionsAlways(sess) == TRUE

\* sessions.length > 0
HasSessions(sess) == Len(sess) > 0

\* after the last file of a directory: its sessions are sorted and pushed
LeaveDir ==
  /\ pc = "files"
  /\ fileIdx > files
  /\ IF HasSessions(sessions)
     THEN \E sorted \in SortSessions(sessions) :
            /\ sessions' = sorted
            /\ projects' = Append(projects, [path |-> dirIdx, sessions |-> sorted])
     ELSE UNCHANGED <<sessions, projects>>
  /\ dirIdx' = dirIdx + 1
  /\ pc' = "dirs"
  /\ UNCHANGED <<tree, projectDirs, files, fileIdx, seenSessionIds, result>>
  /\ UNCHANGED <<viewVars, cardVars, exportVars, labelVars,
               previewVars, scansVars, raceVars>>

\* after the last directory: the projects are sorted and returned
Finish ==
  /\ pc = "dirs"
  /\ dirIdx > projectDirs
  /\ \E sorted \in SortProjects(projects) :
       /\ projects' = sorted
       /\ result' = sorted
  /\ pc' = "done"
  /\ UNCHANGED <<tree, projectDirs, dirIdx, files, fileIdx, seenSessionIds,
                 sessions>>
  /\ UNCHANGED <<viewVars, cardVars, exportVars, labelVars,
               previewVars, scansVars, raceVars>>

Next == MissingRoot \/ StartScan \/ EnterDir \/ ProcessFile \/ LeaveDir \/ Finish

Spec == Init /\ [][Next]_vars

(***************************************************************************)
(* ChatSessionView: loading a session and searching it                     *)
(***************************************************************************)
\* loadSessionDetails up to its await, run by the effect after mount
LoadSessionDetails ==
  /\ request = "none"
  /\ loading' = TRUE
  /\ request' = "pending"
  /\ UNCHANGED <<messages, searchTerm>>
  /\ UNCHANGED <<scanVars, cardVars, exportVars, labelVars,
               previewVars, scansVars, raceVars>>

\* getSessionDetails resolves: setMessages(data), then finally
LoadResolved ==
  /\ request = "pending"
  /\ \E m \in 0..MaxMessages : \E shape \in [1..m -> Shapes(MaxUnits)] :
       /\ UnitsBefore(shape, m + 1) <= MaxUnits
       /\ \E units \in [1..UnitsBefore(shape, m + 1) -> Units] :
            messages' = SessionOf(shape, units)
  /\ loading' = FALSE
  /\ request' = "settled"
  /\ UNCHANGED searchTerm
  /\ UNCHANGED <<scanVars, cardVars, exportVars, labelVars,
               previewVars, scansVars, raceVars>>

\* getSessionDetails rejects: the records stay as they were
LoadRejected ==
  /\ request = "pending"
  /\ loading' = FALSE
  /\ request' = "settled"
  /\ UNCHANGED <<messages, searchTerm>>
  /\ UNCHANGED <<scanVars, cardVars, exportVars, labelVars,
               previewVars, scansVars, raceVars>>

\* the search box, which is rendered once loading is over
SetSearchTerm ==
  /\ ~loading
  /\ \E term \in SearchTerms : searchTerm' = term
  /\ UNCHANGED <<messages, loading, request>>
  /\ UNCHANGED <<scanVars, cardVars, exportVars, labelVars,
               previewVars, scansVars, raceVars>>

NextView == LoadSessionDetails \/ LoadResolved \/ LoadRejected \/ SetSearchTerm

SpecView == Init /\ [][NextView]_vars

\* what the session view shows: the spinner while loading, else the cards
Cards == IF loading THEN <<>> ELSE SessionView(messages, searchTerm)

(***************************************************************************)
(* MessageCard: one record rendered on its own                             *)
(***************************************************************************)
Hello == <<"h", "e", "l", "l", "o">>
\* a text with a fenced code block in it
Fenced ==
  <<"h", "i", " ", Backtick, Backtick, Backtick, "j", "s", "\n", "x",
    Backtick, Backtick, Backtick>>

CardTexts == {Hello, <<>>, <<" ", "\n">>, Fenced}

CardUnits ==
  { NullUnit, NumberUnit, Other, StringUnit(Hi), Text(Hi), Text(<<>>),
    Thinking(Hi),
    ToolUse("t1", Bash), ToolUse(Undefined, Bash), ToolUse("t1", <<>>),
    ToolResult("t1", "A"), ToolResult("t2", "A"), ToolResult(Undefined, "A") }

CardContents ==
  {StringContent(t) : t \in CardTexts} \cup {NoContent} \cup
  {ArrayContent(a) : a \in UNION {[1..n -> CardUnits] : n \in 0..MaxCardUnits}}

\* the records a card may be given; isMeta absent counts as false
CardMessages ==
  {[type |-> ty, isMeta |-> meta, internalMessageType |-> imt, content |-> c] :
     ty \in {"user", "assistant", "system"}, meta \in BOOLEAN,
     imt \in {Undefined, "hook", "terminal_control", ""},
     c \in CardContents}

\* externalToolResults: absent (as good as empty), or with a result for t1
ExternalMaps ==
  {EmptyMap, MapSet(EmptyMap, "t1", [tool_use_id |-> "t1", content |-> "B"])}

\* mutant: a thinking badge does not collapse the card
MutBackgroundButThinking(message, parsed) ==
  \/ message.isMeta
  \/ Len(parsed.toolUseContent) > 0
  \/ parsed.badgeType \in {"hook", "tool", "tool-result", "internal"}

\* isBackgroundMessageByDefault
IsBackgroundMessageByDefault(message, parsed) ==
  \/ message.isMeta
  \/ Len(parsed.toolUseContent) > 0
  \/ parsed.badgeType = "hook"
  \/ parsed.badgeType = "tool"
  \/ parsed.badgeType = "tool-result"
  \/ parsed.badgeType = "internal"
  \/ parsed.badgeType = "thinking"

\* the first render of a card: parseMessage, then useState; a parse that
\* throws leaves nothing mounted
MountCard ==
  /\ card = NoCard
  /\ \E message \in CardMessages : \E external \in ExternalMaps :
       LET parsed == ParseMessage(message, external)
           background == IsBackgroundMessageByDefault(message, parsed)
       IN card' = [mounted |-> ~parsed.threw, message |-> message,
                   external |-> external, parsed |-> parsed,
                   isBackgroundMessageByDefault |-> background,
                   contentExpanded |-> ~background]
  /\ UNCHANGED <<scanVars, viewVars, exportVars, labelVars,
               previewVars, scansVars, raceVars>>

\* a click on the header: setContentExpanded(!contentExpanded)
ToggleContent ==
  /\ card.mounted
  /\ card' = [card EXCEPT !.contentExpanded = ~@]
  /\ UNCHANGED <<scanVars, viewVars, exportVars, labelVars,
               previewVars, scansVars, raceVars>>

NextCard == MountCard \/ ToggleContent

SpecCard == Init /\ [][NextCard]_vars

(***************************************************************************)
(* What the claims speak of, stated on the files themselves.               *)
(***************************************************************************)
Done == pc = "done"

\* the places of the summaries of an index: <<project entry, session>>
Positions(ix) == UNION {{<<p, i>> : i \in DOMAIN ix[p].sessions} : p \in DOMAIN ix}
At(ix, pos) == ix[pos[1]].sessions[pos[2]]

\* the places of the files read: <<directory, file>>, in processing order
FilePositions == UNION {{<<d, i>> : i \in DOMAIN tree[d]} : d \in DOMAIN tree}
FileAt(pos) == tree[pos[1]][pos[2]].file
OutcomeAt(pos) == tree[pos[1]][pos[2]].outcome
Before(a, b) == a[1] < b[1] \/ (a[1] = b[1] /\ a[2] < b[2])

IsBlank(line) == line.kind = "blank"
IsJson(line) == line.kind = "json"
NonBlankLines(file) == SelectSeq(file.lines, LAMBDA l : ~IsBlank(l))
Min(a, b) == IF a < b THEN a ELSE b

\* the first 10 non-blank lines of the file hold no line that parses
NoHeader(file) ==
  LET nb == NonBlankLines(file) IN
  \A i \in 1..Min(Len(nb), maxFirstLines) : ~IsJson(nb[i])

\* the value of the first line that parses
HeaderOf(file) ==
  LET nb == NonBlankLines(file)
      k == CHOOSE i \in 1..Len(nb) :
             IsJson(nb[i]) /\ \A j \in 1..(i - 1) : ~IsJson(nb[j])
  IN nb[k].value

\* the value of the last line that parses
LastParsedOf(file) ==
  LET nb == NonBlankLines(file)
      k == CHOOSE i \in 1..Len(nb) :
             IsJson(nb[i]) /\ \A j \in (i + 1)..Len(nb) : ~IsJson(nb[j])
  IN nb[k].value

\* the sessionId a file carries: that of its header, when it is a string
CarriedId(file) ==
  IF file.ioError \/ NoHeader(file) THEN Undefined
  ELSE IF HeaderOf(file) = JsNull THEN Undefined
  ELSE IF HeaderOf(file).sessionId \in {Undefined, NumberValue, ""} THEN Undefined
  ELSE HeaderOf(file).sessionId

Carries(pos, sid) == CarriedId(FileAt(pos)) = sid

\* C1: no two session summaries of the returned index share a sessionId,
\* within a project entry or across project entries
C1_UniqueSessionIds ==
  Done => \A a, b \in Positions(result) :
            a # b => At(result, a).sessionId # At(result, b).sessionId

\* C1 witness: a sessionId carried by files of two directories and by two
\* files of one directory, and a session of that id in the returned index
C1_Witness ==
  /\ Done
  /\ \E a, b, c \in FilePositions :
       /\ a[1] # b[1] /\ a[1] = c[1] /\ a # c
       /\ \E pos \in Positions(result) :
            LET sid == At(result, pos).sessionId
            IN Carries(a, sid) /\ Carries(b, sid) /\ Carries(c, sid)

\* lastMessageTimestamp as the file gives it: the timestamp of the last
\* parsed record, or the header's when that one has none
ExpectedLastTimestamp(file) ==
  LET last == LastParsedOf(file)
      ts == IF last = JsNull THEN Undefined ELSE last.timestamp
  IN IF ts \in {Undefined, ""} THEN HeaderOf(file).timestamp ELSE ts

\* the scenario of C2: one project with a.jsonl (10 lines, session s1), then
\* b.jsonl (4 lines, session s1)
FileA == File(BadLines(maxFirstLines - 1) \o <<Json(User("s1", T1))>>)
FileB == File(<<Json(User("s1", T2)), Bad, Blank, Json(Assistant("s1", T3)), Bad>>)
ScenarioAB ==
  /\ Len(tree) = 1 /\ Len(tree[1]) = 2
  /\ tree[1][1].file = FileA /\ tree[1][2].file = FileB

\* C2: every summary of the returned index is built from the first file, in
\* processing order, that carries its sessionId: its project, line count and
\* timestamps are that file's, whatever later files with the id hold; a.jsonl
\* (10 lines, s1) before b.jsonl (s1) gives one session s1 with messageCount 10
C2_FirstFileWins ==
  Done =>
    /\ \A pos \in Positions(result) :
         LET s == At(result, pos) IN
         /\ s.src \in FilePositions
         /\ Carries(s.src, s.sessionId)
         /\ \A q \in FilePositions :
              Carries(q, s.sessionId) /\ q # s.src => Before(s.src, q)
         /\ s.projectPath = s.src[1]
         /\ s.messageCount = Len(NonBlankLines(FileAt(s.src)))
         /\ s.firstMessageTimestamp = HeaderOf(FileAt(s.src)).timestamp
         /\ s.lastMessageTimestamp = ExpectedLastTimestamp(FileAt(s.src))
    /\ ScenarioAB =>
         /\ Len(result) = 1 /\ Len(result[1].sessions) = 1
         /\ result[1].sessions[1].sessionId = "s1"
         /\ result[1].sessions[1].messageCount = 10

\* C2 witness: the scan of the scenario has returned
C2_Witness == Done /\ ScenarioAB /\ Len(result) = 1

\* a timestamp that is a date, and its instant
ValidTime(ts) == ts \in DOMAIN IsoTime
AtOrAfter(a, b) == IsoTime[a] >= IsoTime[b]

\* C3: in every project entry of the returned index the sessions are listed
\* in non-increasing order of lastMessageTimestamp (compared wherever both
\* timestamps are dates)
C3_SessionsDescending ==
  Done => \A p \in DOMAIN result :
            \A i, j \in DOMAIN result[p].sessions :
              /\ i < j
              /\ ValidTime(result[p].sessions[i].lastMessageTimestamp)
              /\ ValidTime(result[p].sessions[j].lastMessageTimestamp)
              => AtOrAfter(result[p].sessions[i].lastMessageTimestamp,
                           result[p].sessions[j].lastMessageTimestamp)

\* C4: the project entries are listed in non-increasing order of the
\* lastMessageTimestamp of their first session, and that first session is
\* the most recent session of its project (compared wherever both timestamps
\* are dates)
C4_ProjectsDescending ==
  Done =>
    /\ \A p, q \in DOMAIN result :
         /\ p < q
         /\ ValidTime(result[p].sessions[1].lastMessageTimestamp)
         /\ ValidTime(result[q].sessions[1].lastMessageTimestamp)
         => AtOrAfter(result[p].sessions[1].lastMessageTimestamp,
                      result[q].sessions[1].lastMessageTimestamp)
    /\ \A p \in DOMAIN result : \A i \in DOMAIN result[p].sessions :
         /\ ValidTime(result[p].sessions[1].lastMessageTimestamp)
         /\ ValidTime(result[p].sessions[i].lastMessageTimestamp)
         => AtOrAfter(result[p].sessions[1].lastMessageTimestamp,
                      result[p].sessions[i].lastMessageTimestamp)

\* C5: a file with no non-blank line, or whose first 10 non-blank lines all
\* fail to parse, yields no session in the returned index, even when a later
\* line parses; it is skipped without an error and the scan goes on
C5_NoHeaderNoSession ==
  Done =>
    \A pos \in FilePositions :
      NoHeader(FileAt(pos)) =>
        /\ \A q \in Positions(result) : At(result, q).src # pos
        /\ OutcomeAt(pos) = "no-metadata"

\* C5 witness: a file whose eleventh line is the first that parses was
\* skipped, and a file read after it is in the returned index
C5_Witness ==
  /\ Done
  /\ \E pos \in FilePositions :
       /\ NoHeader(FileAt(pos))
       /\ \E i \in DOMAIN FileAt(pos).lines : IsJson(FileAt(pos).lines[i])
       /\ \E q \in Positions(result) : Before(pos, At(result, q).src)

\* the metadata after the first k lines of a file
MetadataAfter(file, k) == ReadLines(NewMetadata, SubSeq(file.lines, 1, k), 1)

RECURSIVE ScanFiles(_, _, _, _)
ScanFiles(st, fs, d, i) ==
  IF i > Len(fs) THEN st
  ELSE LET r == FileStep(st.seen, st.sessions, fs[i], d, <<0, 0>>)
       IN ScanFiles([seen |-> r.seen, sessions |-> r.sessions], fs, d, i + 1)

RECURSIVE ScanDirs(_, _, _, _)
ScanDirs(seen, t, d, acc) ==
  IF d > Len(t) THEN acc
  ELSE LET st == ScanFiles([seen |-> seen, sessions |-> <<>>], t[d], d, 1)
           entry == [path |-> d,
                     sessions |-> {st.sessions[i] : i \in DOMAIN st.sessions}]
       IN ScanDirs(st.seen, t, d + 1,
                   IF Len(st.sessions) > 0 THEN acc \cup {entry} ELSE acc)

\* the files read, without the file at pos
TreeWithout(pos) ==
  [d \in DOMAIN tree |->
     LET fs == [i \in DOMAIN tree[d] |-> tree[d][i].file] IN
     IF d = pos[1]
     THEN SubSeq(fs, 1, pos[2] - 1) \o SubSeq(fs, pos[2] + 1, Len(fs))
     ELSE fs]

\* the returned index without its order and without the history field
IndexContent(ix) ==
  {[path |-> ix[p].path,
    sessions |-> {[ix[p].sessions[i] EXCEPT !.src = <<0, 0>>] :
                    i \in DOMAIN ix[p].sessions}] : p \in DOMAIN ix}

\* the file could not be read, or its processing threw
Failed(pos) == FileAt(pos).ioError \/ OutcomeAt(pos) = "error"

\* C7: a file whose processing fails is skipped and the scan goes on; every
\* other file is indexed exactly as if the failing file did not exist
C7_FailingFileLeavesNoTrace ==
  Done /\ tree # <<>> =>
    \A pos \in FilePositions :
      Failed(pos) =>
        IndexContent(result) = ScanDirs({}, TreeWithout(pos), 1, {})


(***************************************************************************)
(* What the claims on the session view speak of.                           *)
(***************************************************************************)
\* the view after loading, with nothing typed in the search box
PlainView == ~loading /\ IsBlankString(searchTerm)

\* the places <<record, unit>> of the content units of the loaded session
UnitPlaces ==
  UNION {{<<i, k>> : k \in DOMAIN UnitsOf(messages[i])} : i \in DOMAIN messages}
UnitAt(p) == UnitsOf(messages[p[1]])[p[2]]

ToolUsePlaces(id) ==
  {p \in UnitPlaces : IsObject(UnitAt(p)) /\ UnitAt(p).type = "tool_use"
                      /\ UnitAt(p).id = id}
ToolResultPlaces(id) ==
  {p \in UnitPlaces : IsObject(UnitAt(p)) /\ UnitAt(p).type = "tool_result"
                      /\ UnitAt(p).tool_use_id = id}
ToolIds == {"t1", "t2"}

\* record i has a card among cards
Shown(cards, i) == \E n \in DOMAIN cards : cards[n].index = i
\* the tool and result blocks of cards, each with the record of its card
Blocks(cards, kind, id) ==
  UNION {{[index |-> cards[n].index, badgeType |-> cards[n].parsed.badgeType,
           at |-> <<n, b>>, block |-> cards[n].parsed.toolUseContent[b]] :
            b \in {c \in DOMAIN cards[n].parsed.toolUseContent :
                     /\ cards[n].parsed.toolUseContent[c].block = kind
                     /\ cards[n].parsed.toolUseContent[c].id = id}} :
           n \in DOMAIN cards}

\* C8: with one tool_use t1 in record A and one tool_result for t1 in a later
\* record B, the view shows exactly one tool block for t1, in the card of A
\* and paired with B's result; no result block for t1 is shown, and B has no
\* card when the result is its only content.
C8_PairedOnceAcrossRecords ==
  PlainView =>
    LET cards == Cards IN
    \A id \in ToolIds :
      \A a \in ToolUsePlaces(id) : \A b \in ToolResultPlaces(id) :
        (ToolUsePlaces(id) = {a} /\ ToolResultPlaces(id) = {b} /\ a[1] < b[1]) =>
          /\ Cardinality(Blocks(cards, "tool", id)) = 1
          /\ \A q \in Blocks(cards, "tool", id) :
               /\ q.index = a[1]
               /\ q.block.hasResult
               /\ q.block.result = UnitAt(b).content
          /\ Blocks(cards, "result", id) = {}
          /\ Len(UnitsOf(messages[b[1]])) = 1 => ~Shown(cards, b[1])

C8_Witness ==
  /\ PlainView
  /\ \E a \in ToolUsePlaces("t1") : \E b \in ToolResultPlaces("t1") :
       /\ ToolUsePlaces("t1") = {a} /\ ToolResultPlaces("t1") = {b}
       /\ a[1] < b[1]
       /\ Len(UnitsOf(messages[b[1]])) = 1
       /\ ~Shown(Cards, b[1])
       /\ Shown(Cards, a[1])
       /\ Blocks(Cards, "tool", "t1") # {}

\* C9: a tool_result whose tool_use_id matches no tool_use of the session is
\* shown as a standalone result block exactly once, in the card of its
\* record, and that card has the badge tool-result (when the record holds
\* nothing but tool results).
C9_OrphanResultShownOnce ==
  PlainView =>
    LET cards == Cards IN
    \A id \in ToolIds : \A p \in ToolResultPlaces(id) :
      (ToolResultPlaces(id) = {p} /\ ToolUsePlaces(id) = {}) =>
        /\ Cardinality(Blocks(cards, "result", id)) = 1
        /\ \A q \in Blocks(cards, "result", id) :
             /\ q.index = p[1]
             /\ (\A k \in DOMAIN UnitsOf(messages[p[1]]) :
                   UnitsOf(messages[p[1]])[k].type = "tool_result")
                => q.badgeType = "tool-result"

\* every tool_result of record i names a key of the cross-message map, and
\* the record has no other unit
OnlyMappedResults(map, i) ==
  /\ IsArray(messages[i].content)
  /\ \A k \in DOMAIN UnitsOf(messages[i]) :
       LET u == UnitsOf(messages[i])[k] IN
       /\ IsObject(u) /\ u.type = "tool_result"
       /\ u.tool_use_id \in DOMAIN map

\* record i has a tool_result, every tool_result of it names the id of a
\* tool_use of the session, and the record has no string unit and no object
\* unit of another type
OnlyPairedResults(i) ==
  /\ IsArray(messages[i].content)
  /\ \E k \in DOMAIN UnitsOf(messages[i]) :
       IsObject(UnitsOf(messages[i])[k]) /\ UnitsOf(messages[i])[k].type = "tool_result"
  /\ \A k \in DOMAIN UnitsOf(messages[i]) :
       LET u == UnitsOf(messages[i])[k] IN
       /\ ~IsStringUnit(u)
       /\ IsObject(u) =>
            /\ u.type = "tool_result"
            /\ ~Falsy(u.tool_use_id)
            /\ ToolUsePlaces(u.tool_use_id) # {}

\* C10, as stated: a record has no card if every tool_result of it names a
\* key of the cross-message map and it has no other content, the record with
\* an empty content array included.
C10_OmittedIfOnlyMappedResults ==
  PlainView =>
    LET cards == Cards
        map == ToolResultMap(messages)
    IN \A i \in DOMAIN messages : OnlyMappedResults(map, i) => ~Shown(cards, i)

\* C10, amended: a record has no card if and only if it has a tool_result,
\* every tool_result of it names the id of a tool_use of the session, and it
\* has no other content; so the record with an empty content array has a card.
C10_OmittedIffOnlyPairedResults ==
  PlainView =>
    LET cards == Cards IN
    \A i \in DOMAIN messages : ~Shown(cards, i) <=> OnlyPairedResults(i)

C10_Witness ==
  /\ PlainView
  /\ \E i \in DOMAIN messages : OnlyPairedResults(i) /\ ~Shown(Cards, i)


\* unit place p comes before q: record order, then unit order
UnitBefore(p, q) == p[1] < q[1] \/ (p[1] = q[1] /\ p[2] < q[2])

\* C16, as stated: the cross-message map gives each tool_use_id the payload of
\* the first tool_result unit that carries it; a later unit with the same id
\* does not change the entry.
C16_MapKeepsFirstResult ==
  ~loading =>
    LET map == ToolResultMap(messages) IN
    \A id \in DOMAIN map : \A p \in ToolResultPlaces(id) :
      (\A q \in ToolResultPlaces(id) : q = p \/ UnitBefore(p, q))
      => map[id].content = UnitAt(p).content

\* C16, amended: the cross-message map has an entry for exactly the ids
\* carried by tool_result units, and gives each id the payload of the last
\* tool_result unit that carries it: a later unit replaces the entry.
C16_MapKeepsLastResult ==
  ~loading =>
    LET map == ToolResultMap(messages) IN
    /\ DOMAIN map = {id \in ToolIds : ToolResultPlaces(id) # {}}
    /\ \A id \in DOMAIN map : \A p \in ToolResultPlaces(id) :
         (\A q \in ToolResultPlaces(id) : q = p \/ UnitBefore(q, p))
         => map[id].content = UnitAt(p).content

\* C16 witness: two tool_result units carry t1 with different payloads, and
\* the entry of t1 is the payload of the later one
C16_Witness ==
  /\ ~loading
  /\ \E p \in ToolResultPlaces("t1") : \E q \in ToolResultPlaces("t1") :
       /\ UnitBefore(p, q)
       /\ UnitAt(p).content # UnitAt(q).content
       /\ ToolResultMap(messages)["t1"].content = UnitAt(q).content

\* the values of the lines of a file that parse, in file order
ParsedValues(lines) ==
  LET js == SelectSeq(lines, IsJson) IN [i \in DOMAIN js |-> js[i].value]
FirstOf(seq, n) == SubSeq(seq, 1, Min(Len(seq), n))
LastOrNull(seq) == IF Len(seq) = 0 THEN JsNull ELSE seq[Len(seq)]

\* C17, as stated: after the pass over a file, firstMessages holds the first
\* 10 records that parsed, wherever the unparsable lines stand, and
\* lastMessage is the last record that parsed.
C17_FirstTenParsedRecords ==
  Done =>
    \A pos \in FilePositions :
      LET f == FileAt(pos)
          m == MetadataAfter(f, Len(f.lines))
      IN ~f.ioError =>
           /\ m.firstMessages = FirstOf(ParsedValues(f.lines), maxFirstLines)
           /\ m.lastMessage = LastOrNull(ParsedValues(f.lines))

\* C17, amended: after the pass over a file, firstMessages holds the records
\* that parsed among the first 10 non-blank lines of the file, in file
\* order, and lastMessage is the last record that parsed in the whole file.
C17_ParsedAmongFirstTenLines ==
  Done =>
    \A pos \in FilePositions :
      LET f == FileAt(pos)
          m == MetadataAfter(f, Len(f.lines))
      IN ~f.ioError =>
           /\ m.firstMessages =
                ParsedValues(FirstOf(NonBlankLines(f), maxFirstLines))
           /\ m.lastMessage = LastOrNull(ParsedValues(f.lines))

\* C17 witness: a file was read whose only record that parses stands after
\* its tenth non-blank line: firstMessages is empty and lastMessage is it
C17_Witness ==
  /\ Done
  /\ \E pos \in FilePositions :
       LET f == FileAt(pos)
           m == MetadataAfter(f, Len(f.lines))
       IN /\ ~f.ioError
          /\ Len(ParsedValues(f.lines)) > 0
          /\ m.firstMessages = <<>>
          /\ m.lastMessage = LastOrNull(ParsedValues(f.lines))

\* record i holds a unit that keeps it in the view: text, reasoning, a
\* tool_use, or a tool_result that matches no tool_use of the session
HoldsOwnContent(i) ==
  \/ messages[i].content.t = "string"
  \/ \E k \in DOMAIN UnitsOf(messages[i]) :
       LET u == UnitsOf(messages[i])[k] IN
       \/ IsStringUnit(u)
       \/ IsObject(u) /\ u.type \in {"text", "thinking", "tool_use"}
       \/ IsObject(u) /\ u.type = "tool_result"
          /\ ToolUsePlaces(u.tool_use_id) = {}

\* C18: every record without a card holds tool_result units only, and each
\* of them names a tool_use of a record that has a card, whose tool block
\* for that id shows a result; a record that holds text, reasoning, a
\* tool_use or an unmatched tool_result always has a card.
C18_OmittedOnlyIfShownElsewhere ==
  PlainView =>
    LET cards == Cards IN
    \A i \in DOMAIN messages :
      /\ ~Shown(cards, i) =>
           /\ IsArray(messages[i].content)
           /\ Len(UnitsOf(messages[i])) > 0
           /\ \A k \in DOMAIN UnitsOf(messages[i]) :
                LET u == UnitsOf(messages[i])[k] IN
                /\ IsObject(u) /\ u.type = "tool_result"
                /\ \E a \in ToolUsePlaces(u.tool_use_id) :
                     \E q \in Blocks(cards, "tool", u.tool_use_id) :
                       q.index = a[1] /\ q.block.hasResult
      /\ HoldsOwnContent(i) => Shown(cards, i)

\* C18 witness: a record without a card, and a card whose tool block shows
\* the result that record holds
C18_Witness ==
  /\ PlainView
  /\ \E i \in DOMAIN messages :
       /\ ~Shown(Cards, i)
       /\ \E q \in Blocks(Cards, "tool", UnitsOf(messages[i])[1].tool_use_id) :
            q.block.hasResult /\ q.block.result = UnitsOf(messages[i])[1].content


(***************************************************************************)
(* exportSession. A text is the sequence of its pieces, a piece being a    *)
(* character or a longer stretch; it is empty when it has no piece. The    *)
(* JSON text of a value is given by the value under a "json" record.       *)
(***************************************************************************)
ParagraphBreak == <<"\n", "\n">>
Fence == <<Backtick, Backtick, Backtick>>

\* JSON.stringify(value, null, 2) inside a template literal
JsonStringify(value) == <<[json |-> value]>>
\* typeof resultContent === 'string' ? resultContent : JSON.stringify(...)
ResultText(content) ==
  IF content = Undefined THEN <<"undefined">> ELSE <<content>>
\* ${item.name}
NameText(name) == IF Len(name) = 0 THEN <<"undefined">> ELSE name
\* ${JSON.stringify(item.input, null, 2)}
InputText(input) ==
  IF input.kind = "undefined" THEN <<"undefined">> ELSE JsonStringify(input.entries)

\* the callback of content.map; a null unit is handled apart
ContentPart(item) ==
  IF IsStringUnit(item) THEN item.text
  ELSE IF item.type = "text" THEN item.text
  ELSE IF item.type = "tool_use"
  THEN <<"[Tool Use: ">> \o NameText(item.name) \o <<"]\n">> \o Fence
       \o <<"json\n">> \o InputText(item.input) \o <<"\n">> \o Fence
  ELSE IF item.type = "tool_result"
  THEN <<"[Tool Result]\n">> \o Fence \o <<"\n">>
       \o ResultText(item.content) \o <<"\n">> \o Fence
  ELSE <<>>

\* join('\n\n') of parts[k..]
RECURSIVE JoinParagraphs(_, _)
JoinParagraphs(parts, k) ==
  IF k > Len(parts) THEN <<>>
  ELSE IF k = Len(parts) THEN parts[k]
  ELSE parts[k] \o ParagraphBreak \o JoinParagraphs(parts, k + 1)

\* getMessageContent; item.type on a null unit throws a TypeError
GetMessageContent(message) ==
  IF message.content.t = "string"
  THEN [threw |-> FALSE, value |-> message.content.s]
  ELSE IF IsArray(message.content)
  THEN LET items == message.content.items
           parts == [k \in DOMAIN items |->
                       IF IsNull(items[k]) THEN <<>> ELSE ContentPart(items[k])]
           kept == SelectSeq(parts, LAMBDA part : Len(part) > 0)
       IN IF \E k \in DOMAIN items : IsNull(items[k])
          THEN [threw |-> TRUE, value |-> <<>>]
          ELSE [threw |-> FALSE, value |-> JoinParagraphs(kept, 1)]
  ELSE [threw |-> FALSE, value |-> <<>>]

\* mutant: only a tool_use makes a tool record
MutHasToolUse(message) ==
  /\ IsArray(message.content)
  /\ \E k \in DOMAIN message.content.items :
       /\ IsObject(message.content.items[k])
       /\ message.content.items[k].type = "tool_use"

\* hasToolContent of convertToMarkdown
HasToolContent(message) ==
  /\ IsArray(message.content)
  /\ \E k \in DOMAIN message.content.items :
       /\ IsObject(message.content.items[k])
       /\ message.content.items[k].type \in {"tool_use", "tool_result"}

\* mutant: a tool_result does not make the filter drop a record
MutKeepsInJsonButToolUse(message) ==
  IF ~IsArray(message.content) THEN TRUE
  ELSE ~\E k \in DOMAIN message.content.items :
          /\ IsObject(message.content.items[k])
          /\ message.content.items[k].type = "tool_use"

\* the filter callback of convertToJSON
KeepsInJson(message) ==
  IF ~IsArray(message.content) THEN TRUE
  ELSE ~\E k \in DOMAIN message.content.items :
          /\ IsObject(message.content.items[k])
          /\ (\/ message.content.items[k].type = "tool_use"
              \/ message.content.items[k].type = "tool_result")

\* new Date(timestamp).toLocaleString()
FormatTimestamp(timestamp) == [present |-> TRUE, localized |-> DateGetTime(timestamp)]
\* a property that was not set
NoFormattedTime == [present |-> FALSE, localized |-> NaN]

\* the places in msgs of filteredMessages
JsonKeptPlaces(msgs, options) ==
  IF options.includeToolCalls THEN [i \in DOMAIN msgs |-> i]
  ELSE SelectSeq([i \in DOMAIN msgs |-> i], LAMBDA i : KeepsInJson(msgs[i]))

\* filteredMessages
KeptForExport(msgs, options) ==
  [k \in DOMAIN JsonKeptPlaces(msgs, options) |->
     msgs[JsonKeptPlaces(msgs, options)[k]]]

\* some record of msgs makes getMessageContent throw
ContentThrows(msgs) == \E i \in DOMAIN msgs : GetMessageContent(msgs[i]).threw

\* convertToJSON: the text of the document, given by the document; record,
\* the place of the input record, is a history field the text does not hold
ConvertToJSON(msgs, sessionTitle, options) ==
  LET places == JsonKeptPlaces(msgs, options)
      filtered == KeptForExport(msgs, options)
      exportData ==
        [title |-> sessionTitle,
         messageCount |-> Len(filtered),
         messages |->
           [i \in DOMAIN filtered |->
              [type |-> filtered[i].type,
               timestamp |-> filtered[i].timestamp,
               content |-> GetMessageContent(filtered[i]).value,
               formattedTime |->
                 IF options.includeTimestamps
                 THEN FormatTimestamp(filtered[i].timestamp)
                 ELSE NoFormattedTime,
               record |-> places[i]]]]
  IN IF ContentThrows(filtered)
     THEN [threw |-> TRUE, text |-> <<>>]
     ELSE [threw |-> FALSE, text |-> JsonStringify(exportData)]

\* a line of the structured text
Line(kind) ==
  [kind |-> kind, role |-> "", time |-> NoFormattedTime, content |-> <<>>,
   record |-> 0]
EmptyLine == Line("empty")

\* the places in msgs of the records the loop of convertToMarkdown does not
\* skip
MarkdownKeptPlaces(msgs, options) ==
  SelectSeq([i \in DOMAIN msgs |-> i],
            LAMBDA i : ~(~options.includeToolCalls /\ HasToolContent(msgs[i])))

\* the lines convertToMarkdown pushes for one record; record, the place of
\* the input record, is a history field the text does not hold
MarkdownSection(message, options, record) ==
  LET role == IF message.type = "user" THEN "User" ELSE "Assistant"
      heading == [Line("heading") EXCEPT
                    !.role = role,
                    !.time = IF options.includeTimestamps
                             THEN FormatTimestamp(message.timestamp)
                             ELSE NoFormattedTime,
                    !.record = record]
      msgContent == GetMessageContent(message).value
  IN <<heading, EmptyLine>>
     \o (IF Len(msgContent) > 0
         THEN <<[Line("content") EXCEPT !.content = msgContent], EmptyLine>>
         ELSE <<>>)
     \o <<Line("rule"), EmptyLine>>

RECURSIVE MarkdownSections(_, _, _, _)
MarkdownSections(msgs, places, k, options) ==
  IF k > Len(places) THEN <<>>
  ELSE MarkdownSection(msgs[places[k]], options, places[k])
       \o MarkdownSections(msgs, places, k + 1, options)

\* convertToMarkdown: the text, given by its lines
ConvertToMarkdown(msgs, sessionTitle, options) ==
  LET places == MarkdownKeptPlaces(msgs, options) IN
  IF \E k \in DOMAIN places : GetMessageContent(msgs[places[k]]).threw
  THEN [threw |-> TRUE, text |-> <<>>]
  ELSE [threw |-> FALSE,
        text |-> <<[Line("title") EXCEPT !.content = sessionTitle], EmptyLine,
                   Line("exported"), EmptyLine, Line("rule"), EmptyLine>>
                 \o MarkdownSections(msgs, places, 1, options)]

(***************************************************************************)
(* exportSession as a process: the call computes the default file name and *)
(* awaits the save dialog; when the dialog resolves the rest of the        *)
(* function runs without suspension.                                       *)
(***************************************************************************)
\* a record as the export reads it: type, timestamp and message.content
ExportMessage(type, timestamp, content) ==
  [type |-> type, isMeta |-> FALSE, internalMessageType |-> Undefined,
   content |-> content, timestamp |-> timestamp]

ExportMessages ==
  {ExportMessage("user", T1, StringContent(Hi)),
   ExportMessage("system", T1, NoContent),
   ExportMessage("assistant", T2, ArrayContent(<<Text(Hi)>>)),
   ExportMessage("assistant", T1, ArrayContent(<<ToolUse("t1", Bash)>>)),
   ExportMessage("user", T1, ArrayContent(<<ToolResult("t1", "A")>>)),
   ExportMessage("user", Garbage, ArrayContent(<<Text(Hi), ToolResult("t1", "A")>>)),
   ExportMessage("assistant", T1, ArrayContent(<<NumberUnit, Text(<<>>)>>)),
   ExportMessage("assistant", T1, ArrayContent(<<NullUnit>>))}

ExportOptions ==
  [format : {"markdown", "json"}, includeToolCalls : BOOLEAN,
   includeTimestamps : BOOLEAN]

SessionTitles == {<<"a", " ", "b">>, <<"a", "/", "b">>}
\* the characters the default file name replaces by '-'
FilenameUnsafe == {"/", "\\", "?", "%", "*", ":", "|", "\"", "<", ">"}
\* sessionTitle.slice(0, 50).replace(/[/\\?%*:|"<>]/g, '-') + '.' + ext
DefaultFilename(sessionTitle, options) ==
  LET head == SubSeq(sessionTitle, 1, IF Len(sessionTitle) < FilenameCut
                                      THEN Len(sessionTitle) ELSE FilenameCut)
  IN [k \in DOMAIN head |-> IF head[k] \in FilenameUnsafe THEN "-" ELSE head[k]]
     \o <<".">> \o (IF options.format = "markdown" THEN <<"md">> ELSE <<"json">>)

\* result.filePath of the dialog: absent, empty, or a chosen path
FilePaths == {Undefined, "", "/out"}
\* fs.writeFileSync: the file is written; or it fails before anything is
\* written; or it fails with the file created and left incomplete
WriteOutcomes == {"written", "failed", "failedPartial"}

NoFile == [path |-> Undefined, complete |-> FALSE, content |-> <<>>]
NoReturn == [settled |-> "pending", success |-> FALSE, filePath |-> Undefined,
             error |-> Undefined]
Resolved(success, filePath, error) ==
  [settled |-> "resolved", success |-> success, filePath |-> filePath,
   error |-> error]
Rejected(error) ==
  [settled |-> "rejected", success |-> FALSE, filePath |-> Undefined,
   error |-> error]

\* the body of the try block: convert, then writeFileSync; writes, the
\* paths writeFileSync was called with, is a history field
TryBody(msgs, sessionTitle, options, filePath, writeOutcome) ==
  LET content == IF options.format = "markdown"
                 THEN ConvertToMarkdown(msgs, sessionTitle, options)
                 ELSE ConvertToJSON(msgs, sessionTitle, options)
  IN IF content.threw
     THEN [threw |-> TRUE, error |-> "TypeError", file |-> NoFile,
           writes |-> <<>>]
     ELSE IF writeOutcome = "written"
     THEN [threw |-> FALSE, error |-> Undefined,
           file |-> [path |-> filePath, complete |-> TRUE, content |-> content.text],
           writes |-> <<filePath>>]
     ELSE IF writeOutcome = "failedPartial"
     THEN [threw |-> TRUE, error |-> "ENOSPC",
           file |-> [path |-> filePath, complete |-> FALSE, content |-> <<>>],
           writes |-> <<filePath>>]
     ELSE [threw |-> TRUE, error |-> "EACCES", file |-> NoFile,
           writes |-> <<filePath>>]

\* mutant: no catch clause, the error leaves the function
MutNoCatch(attempt, filePath) ==
  IF attempt.threw THEN Rejected(attempt.error)
  ELSE Resolved(TRUE, filePath, Undefined)

\* return { success: true, filePath } at the end of the try block, or the
\* catch clause's { success: false, error: err.message }
TryCatch(attempt, filePath) ==
  IF attempt.threw THEN Resolved(FALSE, Undefined, attempt.error)
  ELSE Resolved(TRUE, filePath, Undefined)

\* mutant: only a cancelled dialog ends the call
MutDeclinedOnlyIfCanceled(canceled, filePath) == canceled

\* result.canceled || !result.filePath
DialogDeclined(canceled, filePath) == canceled \/ Falsy(filePath)

\* the call up to its await of dialog.showSaveDialog
ExportSession ==
  /\ exportRun = NoExport
  /\ \E m \in 0..MaxExportMessages :
       \E msgs \in [1..m -> ExportMessages] :
         \E sessionTitle \in SessionTitles, options \in ExportOptions :
           exportRun' = [pc |-> "dialog", messages |-> msgs,
                         sessionTitle |-> sessionTitle, options |-> options,
                         defaultFilename |-> DefaultFilename(sessionTitle, options),
                         canceled |-> FALSE, filePath |-> Undefined,
                         serialized |-> FALSE, threw |-> FALSE,
                         file |-> NoFile, writes |-> <<>>,
                         returned |-> NoReturn]
  /\ UNCHANGED <<scanVars, viewVars, cardVars, labelVars,
               previewVars, scansVars, raceVars>>

\* the dialog resolves and the function runs to its return
ShowSaveDialogResolved ==
  /\ exportRun.pc = "dialog"
  /\ \E canceled \in BOOLEAN, filePath \in FilePaths,
        writeOutcome \in WriteOutcomes :
       LET attempt == TryBody(exportRun.messages, exportRun.sessionTitle,
                              exportRun.options, filePath, writeOutcome)
       IN exportRun' =
            IF DialogDeclined(canceled, filePath)
            THEN [exportRun EXCEPT !.pc = "returned", !.canceled = canceled,
                    !.filePath = filePath,
                    !.returned = Resolved(FALSE, Undefined, "Export cancelled")]
            ELSE [exportRun EXCEPT !.pc = "returned", !.canceled = canceled,
                    !.filePath = filePath, !.serialized = TRUE,
                    !.threw = attempt.threw, !.file = attempt.file,
                    !.writes = attempt.writes,
                    !.returned = TryCatch(attempt, filePath)]
  /\ UNCHANGED <<scanVars, viewVars, cardVars, labelVars,
               previewVars, scansVars, raceVars>>

NextExport == ExportSession \/ ShowSaveDialogResolved
SpecExport == Init /\ [][NextExport]_vars

(***************************************************************************)
(* getToolKeyParams. Strings are the sequences of their characters. A      *)
(* value of the input object is a record of its kind with, as the kind     *)
(* asks, its characters, its number, or its elements.                      *)
(***************************************************************************)
\* cmd.length > 60, cmd.slice(0, 60)
BashCut == 60
\* pattern.length > 40, pattern.slice(0, 40), url.slice(0, 40)
PatternCut == 40
\* q.length > 50, value.length > 50, val.length > 50 and their slices
ValueCut == 50

StringInput(str) == [kind |-> "string", s |-> str, n |-> 0, items |-> <<>>]
NumberInput(n) == [kind |-> "number", s |-> <<>>, n |-> n, items |-> <<>>]
NullInput == [kind |-> "null", s |-> <<>>, n |-> 0, items |-> <<>>]
UndefinedInput == [kind |-> "undefined", s |-> <<>>, n |-> 0, items |-> <<>>]
ArrayInput(items) == [kind |-> "array", s |-> <<>>, n |-> 0, items |-> items]
\* an object, its entries <<key, value>> in the place of elements
ObjectInput(entries) == [kind |-> "object", s |-> <<>>, n |-> 0, items |-> entries]

\* the value is truthy
Truthy(value) ==
  CASE value.kind = "string" -> Len(value.s) > 0
    [] value.kind = "number" -> value.n # 0
    [] value.kind \in {"array", "object"} -> TRUE
    [] OTHER -> FALSE

Digit == <<"0", "1", "2", "3", "4", "5", "6", "7", "8", "9">>
\* String(n) for 0 <= n <= 9
DigitString(n) == <<Digit[n + 1]>>
ObjectObject == <<"[", "o", "b", "j", "e", "c", "t", " ", "O", "b", "j", "e", "c", "t", "]">>
RECURSIVE JoinComma(_, _)
\* String(value)
StringOf(value) ==
  CASE value.kind = "string" -> value.s
    [] value.kind = "number" -> DigitString(value.n)
    [] value.kind = "null" -> <<"n", "u", "l", "l">>
    [] value.kind = "undefined" -> <<"u", "n", "d", "e", "f", "i", "n", "e", "d">>
    [] value.kind = "array" -> JoinComma(value.items, 1)
    [] OTHER -> ObjectObject
\* Array.prototype.join(',') of items[k..]; null and undefined give ''
JoinComma(items, k) ==
  IF k > Len(items) THEN <<>>
  ELSE (IF items[k].kind \in {"null", "undefined"} THEN <<>> ELSE StringOf(items[k]))
       \o (IF k < Len(items) THEN <<",">> ELSE <<>>)
       \o JoinComma(items, k + 1)

\* obj[key]; entries hold each key once
Get(entries, key) ==
  IF \E i \in DOMAIN entries : entries[i][1] = key
  THEN entries[CHOOSE i \in DOMAIN entries : entries[i][1] = key][2]
  ELSE UndefinedInput

\* str.length > cut ? str.slice(0, cut) + '...' : str
Truncate(str, cut) ==
  IF Len(str) > cut THEN SubSeq(str, 1, cut) \o Ellipsis ELSE str

\* parts[parts.length - 1] || path, parts = path.split('/')
LastSegment(path) ==
  LET slashes == {i \in DOMAIN path : path[i] = "/"}
      from == IF slashes = {} THEN 1
              ELSE (CHOOSE i \in slashes : \A j \in slashes : j <= i) + 1
      last == SubSeq(path, from, Len(path))
  IN IF Len(last) = 0 THEN path ELSE last

HttpsPrefix == <<"h", "t", "t", "p", "s", ":", "/", "/">>
\* new URL(url).hostname for an https URL without port or credentials, in
\* lower case: the characters between the prefix and the next '/'; any
\* text without a scheme makes the constructor throw
ParseHostname(url) ==
  LET n == Len(HttpsPrefix)
      hasPrefix == Len(url) > n /\ SubSeq(url, 1, n) = HttpsPrefix
      rest == SubSeq(url, n + 1, Len(url))
      ends == {i \in DOMAIN rest : rest[i] = "/"}
      stop == IF ends = {} THEN Len(rest)
              ELSE (CHOOSE i \in ends : \A j \in ends : i <= j) - 1
  IN IF hasPrefix /\ stop > 0
     THEN [ok |-> TRUE, hostname |-> SubSeq(rest, 1, stop)]
     ELSE [ok |-> FALSE, hostname |-> <<>>]
\* the try / catch around new URL(url).hostname
HostnameOrSlice(url) ==
  IF ParseHostname(url).ok THEN ParseHostname(url).hostname
  ELSE SubSeq(url, 1, IF Len(url) < PatternCut THEN Len(url) ELSE PatternCut)

ReadTool == <<"R", "e", "a", "d">>
WriteTool == <<"W", "r", "i", "t", "e">>
EditTool == <<"E", "d", "i", "t">>
GrepTool == <<"G", "r", "e", "p">>
GlobTool == <<"G", "l", "o", "b">>
TaskTool == <<"T", "a", "s", "k">>
WebFetchTool == <<"W", "e", "b", "F", "e", "t", "c", "h">>
TodoWriteTool == <<"T", "o", "d", "o", "W", "r", "i", "t", "e">>
AskUserQuestionTool == <<"A", "s", "k", "U", "s", "e", "r", "Q", "u", "e", "s", "t", "i", "o", "n">>
NotebookEditTool == <<"N", "o", "t", "e", "b", "o", "o", "k", "E", "d", "i", "t">>
BashTool == Bash

KeyFilePath == <<"f", "i", "l", "e", "_", "p", "a", "t", "h">>
KeyPath == <<"p", "a", "t", "h">>
KeyUrl == <<"u", "r", "l">>
KeyQuery == <<"q", "u", "e", "r", "y">>
KeyCommand == <<"c", "o", "m", "m", "a", "n", "d">>
KeyName == <<"n", "a", "m", "e">>
KeyTitle == <<"t", "i", "t", "l", "e">>
KeyTarget == <<"t", "a", "r", "g", "e", "t">>
KeyMessage == <<"m", "e", "s", "s", "a", "g", "e">>
KeyContent == <<"c", "o", "n", "t", "e", "n", "t">>
KeyText == <<"t", "e", "x", "t">>
KeyDescription == <<"d", "e", "s", "c", "r", "i", "p", "t", "i", "o", "n">>
KeyInput == <<"i", "n", "p", "u", "t">>
KeyPattern == <<"p", "a", "t", "t", "e", "r", "n">>
KeyTodos == <<"t", "o", "d", "o", "s">>
KeyQuestions == <<"q", "u", "e", "s", "t", "i", "o", "n", "s">>
KeyQuestion == <<"q", "u", "e", "s", "t", "i", "o", "n">>
KeyNotebookPath == <<"n", "o", "t", "e", "b", "o", "o", "k", "_", "p", "a", "t", "h">>

\* mutant: command comes first
MutParamPriorityCommandFirst ==
  <<KeyCommand, KeyFilePath, KeyPath, KeyUrl, KeyQuery, KeyName, KeyTitle, KeyTarget, KeyMessage, KeyContent, KeyText, KeyDescription, KeyInput>>

\* paramPriority
ParamPriority ==
  <<KeyFilePath, KeyPath, KeyUrl, KeyQuery, KeyCommand, KeyName, KeyTitle, KeyTarget, KeyMessage, KeyContent, KeyText, KeyDescription, KeyInput>>

Label(str) == [null |-> FALSE, s |-> str]
NullLabel == [null |-> TRUE, s |-> <<>>]

\* the cases Read, Write, Edit and NotebookEdit
PathLabel(entries, key) ==
  IF Truthy(Get(entries, key)) THEN Label(LastSegment(StringOf(Get(entries, key))))
  ELSE NullLabel

\* mutant: the command is cut as the other values are
MutBashLabelCutAsValues(cmd) == Truncate(cmd, ValueCut)

\* cmd.length > 60 ? cmd.slice(0, 60) + '...' : cmd
BashLabel(cmd) == Truncate(cmd, BashCut)

\* the cases Grep and Glob: the pattern, then ' in ' and the path's last part
PatternLabel(entries, shown) ==
  IF Truthy(Get(entries, KeyPath))
  THEN Label(shown \o <<" ", "i", "n", " ">>
             \o LastSegment(StringOf(Get(entries, KeyPath))))
  ELSE Label(shown)

\* the case AskUserQuestion
QuestionLabel(entries) ==
  LET questions == Get(entries, KeyQuestions) IN
  IF questions.kind = "array" /\ Len(questions.items) > 0
  THEN LET firstQ == questions.items[1] IN
       IF firstQ.kind = "object"
          /\ \E i \in DOMAIN firstQ.items : firstQ.items[i][1] = KeyQuestion
       THEN Label(Truncate(StringOf(Get(firstQ.items, KeyQuestion)), ValueCut))
       ELSE NullLabel
  ELSE NullLabel

\* the first loop of the default case, from paramPriority[k] on
RECURSIVE PriorityLabel(_, _)
PriorityLabel(entries, k) ==
  IF k > Len(ParamPriority) THEN NullLabel
  ELSE LET param == ParamPriority[k]
           value == StringOf(Get(entries, param))
       IN IF Get(entries, param).kind \notin {"undefined", "null"}
             /\ ~IsBlankString(value)
          THEN IF Includes(param, KeyPath) \/ param = KeyFilePath
               THEN Label(LastSegment(value))
               ELSE IF param = KeyUrl THEN Label(HostnameOrSlice(value))
               ELSE Label(Truncate(value, ValueCut))
          ELSE PriorityLabel(entries, k + 1)

\* the second loop of the default case, from entries[i] on
RECURSIVE FirstStringLabel(_, _)
FirstStringLabel(entries, i) ==
  IF i > Len(entries) THEN NullLabel
  ELSE LET key == entries[i][1]
           val == entries[i][2]
       IN IF val.kind = "string" /\ ~IsBlankString(val.s)
             /\ ~(Len(key) > 0 /\ key[1] = "_")
          THEN Label(Truncate(val.s, ValueCut))
          ELSE FirstStringLabel(entries, i + 1)

\* getToolKeyParams; input is a value, inputObj its entries
GetToolKeyParams(toolName, input) ==
  LET inputObj == IF input.kind = "array"
                  THEN [i \in DOMAIN input.items |->
                          <<DigitString(i - 1), input.items[i]>>]
                  ELSE input.items
      at(key) == Get(inputObj, key)
  IN
  IF ~Truthy(input) \/ input.kind \notin {"object", "array"} THEN NullLabel
  ELSE IF toolName \in {ReadTool, WriteTool, EditTool}
  THEN PathLabel(inputObj, KeyFilePath)
  ELSE IF toolName = BashTool
  THEN IF Truthy(at(KeyCommand)) THEN Label(BashLabel(StringOf(at(KeyCommand))))
       ELSE NullLabel
  ELSE IF toolName = GrepTool
  THEN IF Truthy(at(KeyPattern))
       THEN PatternLabel(inputObj,
              <<"\"">> \o Truncate(StringOf(at(KeyPattern)), PatternCut) \o <<"\"">>)
       ELSE NullLabel
  ELSE IF toolName = GlobTool
  THEN IF Truthy(at(KeyPattern))
       THEN PatternLabel(inputObj, StringOf(at(KeyPattern)))
       ELSE NullLabel
  ELSE IF toolName = TaskTool
  THEN IF Truthy(at(KeyDescription)) THEN Label(StringOf(at(KeyDescription)))
       ELSE NullLabel
  ELSE IF toolName = WebFetchTool
  THEN IF Truthy(at(KeyUrl)) THEN Label(HostnameOrSlice(StringOf(at(KeyUrl))))
       ELSE NullLabel
  ELSE IF toolName = TodoWriteTool
  THEN IF at(KeyTodos).kind = "array"
       THEN Label(DigitString(Len(at(KeyTodos).items))
                  \o <<" ", "i", "t", "e", "m", "(", "s", ")">>)
       ELSE NullLabel
  ELSE IF toolName = AskUserQuestionTool THEN QuestionLabel(inputObj)
  ELSE IF toolName = NotebookEditTool THEN PathLabel(inputObj, KeyNotebookPath)
  ELSE LET first == PriorityLabel(inputObj, 1) IN
       IF ~first.null THEN first ELSE FirstStringLabel(inputObj, 1)

(***************************************************************************)
(* One call of getToolKeyParams, as parseMessage makes for a tool_use.     *)
(***************************************************************************)
\* a text of n characters, no two neighbours alike
Counted(n) == [i \in 1..n |-> Digit[(i % 10) + 1]]
KeyZ == <<"z">>
KeyUnderscored == <<"_", "z">>
McpTool == <<"m", "c", "p">>
ToolNames ==
  {ReadTool, WriteTool, EditTool, BashTool, GrepTool, GlobTool, TaskTool,
   WebFetchTool, TodoWriteTool, AskUserQuestionTool, NotebookEditTool, McpTool}

TextLengths == {0, 1, PatternCut, PatternCut + 1, ValueCut, ValueCut + 1,
                BashCut - 1, BashCut, BashCut + 1, 2 * ValueCut}
TextInputs ==
  {StringInput(Counted(n)) : n \in TextLengths}
  \cup {StringInput(Space), NumberInput(7), NumberInput(0), NullInput}
PathInputs ==
  {StringInput(<<"a", "/", "b">>), StringInput(<<"a", "/">>), StringInput(<<>>)}
UrlInputs ==
  {StringInput(HttpsPrefix \o <<"h", "/", "p">>), StringInput(<<"h">>),
   StringInput(Counted(PatternCut + 1))}
ListInputs ==
  {ArrayInput(<<>>), ArrayInput(<<NumberInput(7)>>),
   ArrayInput(<<ObjectInput(<<<<KeyQuestion, StringInput(Counted(ValueCut + 1))>>>>)>>)}

\* the entries an input object is made of
InputEntries ==
  {<<key, value>> : key \in {KeyCommand, KeyPattern, KeyDescription, KeyQuery,
                             KeyZ, KeyUnderscored},
                    value \in TextInputs}
  \cup {<<key, value>> : key \in {KeyFilePath, KeyPath, KeyNotebookPath},
                         value \in PathInputs}
  \cup {<<KeyUrl, value>> : value \in UrlInputs}
  \cup {<<key, value>> : key \in {KeyTodos, KeyQuestions}, value \in ListInputs}

\* what is no object: undefined, null, a string, a number, and an array
OtherInputs ==
  {UndefinedInput, NullInput, StringInput(<<"l", "s">>), NumberInput(7),
   ArrayInput(<<StringInput(<<"l", "s">>)>>)}

\* the call with an input of no, one or two entries, or with no object
CallGetToolKeyParams ==
  /\ toolLabel = NoLabel
  /\ \E toolName \in ToolNames :
       \/ \E input \in OtherInputs \cup {ObjectInput(<<>>)} :
            toolLabel' = [called |-> TRUE, toolName |-> toolName, input |-> input,
                          keyParams |-> GetToolKeyParams(toolName, input)]
       \/ \E first \in InputEntries :
            toolLabel' = [called |-> TRUE, toolName |-> toolName,
                          input |-> ObjectInput(<<first>>),
                          keyParams |->
                            GetToolKeyParams(toolName, ObjectInput(<<first>>))]
       \/ \E first \in InputEntries, second \in InputEntries :
            /\ first[1] # second[1]
            /\ toolLabel' = [called |-> TRUE, toolName |-> toolName,
                             input |-> ObjectInput(<<first, second>>),
                             keyParams |->
                               GetToolKeyParams(toolName,
                                                ObjectInput(<<first, second>>))]
  /\ UNCHANGED <<scanVars, viewVars, cardVars, exportVars,
               previewVars, scansVars, raceVars>>

NextLabel == CallGetToolKeyParams
SpecLabel == Init /\ [][NextLabel]_vars

(***************************************************************************)
(* Overlapping scans: each 'get-chat-sessions' request runs getChatSessions *)
(* with locals of its own; a call runs without interruption up to its next *)
(* await of readSessionMetadata, and again from the moment that read       *)
(* resolves. The files do not change while the scans run.                  *)
(***************************************************************************)
\* the log files on the disk the overlapping scans read
SharedFiles ==
  {File(<<Json(User("s1", T1))>>),
   File(<<Json(User("s1", T3)), Json(Assistant("s1", T3))>>),
   File(<<Json(User("s2", T2))>>),
   File(<<Json(Assistant("s2", Garbage)), Json(JsNull)>>)}

\* the disk with these numbers of files by directory, filled from fs in order
DiskOf(shape, fs) ==
  LET before(d) == FilesRead([j \in 1..(d - 1) |-> [i \in 1..shape[j] |-> 0]], 1)
  IN [exists |-> TRUE,
      dirs |-> [d \in DOMAIN shape |->
                  [i \in 1..shape[d] |-> fs[before(d) + i]]]]

\* the locals of a call before its first loop
NewScan(seen) ==
  [pc |-> "running", dirIdx |-> 1, fileIdx |-> 1, seenSessionIds |-> seen,
   sessions |-> <<>>, projects |-> <<>>, inflight |-> {}, processed |-> <<>>,
   result |-> <<>>, overlapped |-> FALSE]

\* mutant: the set outlives the call, a new call starts from what the calls
\* before it have seen
MutInitialSeenShared(others) ==
  UNION {others[k].seenSessionIds : k \in DOMAIN others}

\* const seenSessionIds = new Set<string>(), others being the calls made
\* before
InitialSeen(others) == {}

\* mutant: the reads of all remaining files of the directory are started at
\* once
MutReadsToStartAll(d, i, n) == {<<d, j>> : j \in i..n}

\* await readSessionMetadata(filePath) for file i of the n files of
\* directory d: the reads the loop starts before it suspends
ReadsToStart(d, i, n) == {<<d, i>>}

\* the call from its place in the loops to its next await or to its return:
\* the states it may suspend or end in
RECURSIVE RunToAwait(_, _)
RunToAwait(l, dsk) ==
  IF l.dirIdx > Len(dsk.dirs)
  THEN {[l EXCEPT !.pc = "done", !.projects = sorted, !.result = sorted] :
          sorted \in SortProjects(l.projects)}
  ELSE IF l.fileIdx > Len(dsk.dirs[l.dirIdx])
  THEN UNION {RunToAwait([l EXCEPT !.dirIdx = @ + 1, !.fileIdx = 1,
                                   !.sessions = <<>>,
                                   !.projects =
                                     IF HasSessions(l.sessions)
                                     THEN Append(@, [path |-> l.dirIdx,
                                                     sessions |-> sorted])
                                     ELSE @], dsk) :
                sorted \in SortSessions(l.sessions)}
  ELSE {[l EXCEPT !.pc = "awaiting",
                  !.inflight = @ \cup ReadsToStart(l.dirIdx, l.fileIdx,
                                                    Len(dsk.dirs[l.dirIdx]))]}

\* the call from its start: the missing root returns an empty index
StartOfScan(seen, dsk) ==
  IF ~dsk.exists THEN {[NewScan(seen) EXCEPT !.pc = "done"]}
  ELSE RunToAwait(NewScan(seen), dsk)

\* the read of the file at pos resolves: the rest of the iteration, then on
\* to the next await or the return
ResumeAfterRead(l, dsk, pos) ==
  LET r == FileStep(l.seenSessionIds, l.sessions, dsk.dirs[pos[1]][pos[2]],
                    pos[1], pos)
  IN RunToAwait([l EXCEPT !.inflight = @ \ {pos},
                          !.seenSessionIds = r.seen,
                          !.sessions = r.sessions,
                          !.fileIdx = @ + 1,
                          !.processed = Append(@, pos)], dsk)

\* a request arrives: the first one finds the disk as it is; the handler
\* runs to its first await
InvokeGetChatSessions ==
  /\ Len(scans) < 2
  /\ \A k \in DOMAIN scans : scans[k].pc = "awaiting"
  /\ IF scans = <<>>
     THEN \/ disk' = NoDisk
          \/ \E nd \in 0..MaxDirs :
               \E shape \in [1..nd -> 0..MaxSharedFiles],
                  fs \in [1..MaxSharedFiles -> SharedFiles] :
                 /\ FilesRead([d \in 1..nd |-> [i \in 1..shape[d] |-> 0]], 1)
                      <= MaxSharedFiles
                 /\ disk' = DiskOf(shape, fs)
     ELSE disk' = disk
  /\ \E l \in StartOfScan(InitialSeen(scans), disk') :
       scans' = Append(scans, [l EXCEPT !.overlapped = scans # <<>>])
  /\ UNCHANGED <<scanVars, viewVars, cardVars, exportVars, labelVars,
                 previewVars, raceVars>>

\* a read of one of the calls resolves
ReadResolved ==
  /\ \E k \in DOMAIN scans :
       /\ scans[k].pc = "awaiting"
       /\ \E pos \in scans[k].inflight :
            \E l \in ResumeAfterRead(scans[k], disk, pos) :
              scans' = [scans EXCEPT ![k] = l]
  /\ UNCHANGED disk
  /\ UNCHANGED <<scanVars, viewVars, cardVars, exportVars, labelVars,
                 previewVars, raceVars>>

NextScans == InvokeGetChatSessions \/ ReadResolved
SpecScans == Init /\ [][NextScans]_vars

(***************************************************************************)
(* The session view while the selected session changes: the effect on      *)
(* session.sessionId calls loadSessionDetails again, every call awaits its *)
(* own getSessionDetails, and the responses arrive in any order.           *)
(***************************************************************************)
SelectableSessions == {"s1", "s2", "s3"}

\* what getSessionDetails returns for a session: the records of its file
DetailsOf(sessionId) ==
  [i \in 1..(IF sessionId = "s1" THEN 1 ELSE 2) |->
     [sessionId |-> sessionId, line |-> i]]

\* the call of getSessionDetails the n-th run of the effect makes
LoadOf(n, sessionId) == [n |-> n, sessionId |-> sessionId]

\* the view is mounted with a session: useState defaults, then the effect
\* runs loadSessionDetails up to its await
MountSessionView ==
  /\ race = NoRace
  /\ \E s \in SelectableSessions :
       race' = [mounted |-> TRUE, session |-> s, selections |-> 1,
                pending |-> {LoadOf(1, s)}, resolved |-> {},
                messages |-> <<>>, loading |-> TRUE]
  /\ UNCHANGED <<scanVars, viewVars, cardVars, exportVars, labelVars,
                 previewVars, scansVars>>

\* the session prop changes to another session: the effect runs again,
\* setLoading(true), and a further getSessionDetails is awaited
SessionChanged ==
  /\ race # NoRace
  /\ race.selections < MaxSelections
  /\ \E s \in SelectableSessions \ {race.session} :
       race' = [race EXCEPT !.session = s, !.selections = @ + 1,
                            !.pending = @ \cup {LoadOf(race.selections + 1, s)},
                            !.loading = TRUE]
  /\ UNCHANGED <<scanVars, viewVars, cardVars, exportVars, labelVars,
                 previewVars, scansVars>>

\* one of the awaited calls resolves: setMessages(data), then finally
DetailsResolved ==
  /\ race # NoRace
  /\ \E load \in race.pending :
       race' = [race EXCEPT !.pending = @ \ {load},
                            !.resolved = @ \cup {load.n},
                            !.messages = DetailsOf(load.sessionId),
                            !.loading = FALSE]
  /\ UNCHANGED <<scanVars, viewVars, cardVars, exportVars, labelVars,
                 previewVars, scansVars>>

\* one of the awaited calls rejects: console.error, then finally
DetailsRejected ==
  /\ race # NoRace
  /\ \E load \in race.pending :
       race' = [race EXCEPT !.pending = @ \ {load}, !.loading = FALSE]
  /\ UNCHANGED <<scanVars, viewVars, cardVars, exportVars, labelVars,
                 previewVars, scansVars>>

NextRace ==
  MountSessionView \/ SessionChanged \/ DetailsResolved \/ DetailsRejected
SpecRace == Init /\ [][NextRace]_vars

(***************************************************************************)
(* One call of getFirstUserMessage, as getChatSessions makes for a file    *)
(* whose metadata it has read.                                             *)
(***************************************************************************)
\* a record of session s1 with this type, flags and content
PreviewRecord(type, isMeta, internalMessageType, content) ==
  [Rec("s1", T1, type) EXCEPT !.isMeta = isMeta,
                              !.internalMessageType = internalMessageType,
                              !.content = content]

\* the records firstMessages may hold
PreviewRecords ==
  {PreviewRecord("assistant", FALSE, Undefined, StringContent(Chars(1))),
   PreviewRecord("user", TRUE, Undefined, StringContent(Chars(2))),
   PreviewRecord("user", FALSE, "hook", StringContent(Chars(3))),
   PreviewRecord("user", FALSE, Undefined, StringContent(<<>>)),
   PreviewRecord("user", FALSE, Undefined, StringContent(Chars(PreviewLimit))),
   PreviewRecord("user", FALSE, Undefined, StringContent(Chars(PreviewLimit + 1))),
   PreviewRecord("user", FALSE, Undefined, ArrayContent(<<Text(Hi)>>)),
   PreviewRecord("user", FALSE, Undefined, NoContent),
   JsNull}

\* the call for a file's firstMessages, which is never empty
CallGetFirstUserMessage ==
  /\ previewCall = NoPreview
  /\ \E n \in 1..MaxPreviewMessages :
       \E firstMessages \in [1..n -> PreviewRecords] :
         previewCall' = [called |-> TRUE, firstMessages |-> firstMessages,
                         returned |-> GetFirstUserMessage(firstMessages)]
  /\ UNCHANGED <<scanVars, viewVars, cardVars, exportVars, labelVars,
                 scansVars, raceVars>>

NextPreview == CallGetFirstUserMessage
SpecPreview == Init /\ [][NextPreview]_vars

(***************************************************************************)
(* What the claims on a single card speak of.                              *)
(***************************************************************************)
HasFence(text) == \E i \in DOMAIN text : IsFenceAt(text, i)
\* 'user' for type user, 'assistant' for every other type
BaseBadge(message) == IF message.type = "user" THEN "user" ELSE "assistant"

\* C15: a record whose content is a bare string, not blank and without a
\* code fence, parses to one text fragment with one text block holding the
\* string and to no tool block; when it is neither meta nor carries an
\* internalMessageType its badge is user for type user and assistant
\* otherwise, and the card is expanded by default.
C15_BareStringIsOneTextBlock ==
  (card # NoCard /\ card.message.content.t = "string") =>
    LET text == card.message.content.s IN
    (~IsBlankString(text) /\ ~HasFence(text)) =>
      /\ card.mounted
      /\ Len(card.parsed.textContent) = 1
      /\ card.parsed.textContent[1].blocks = <<TextBlock(text)>>
      /\ card.parsed.toolUseContent = <<>>
      /\ (~card.message.isMeta /\ card.message.internalMessageType = Undefined) =>
           /\ card.parsed.badgeType = BaseBadge(card.message)
           /\ ~card.isBackgroundMessageByDefault

\* C15 witness: a system record "hello" shown as assistant, expanded
C15_Witness ==
  /\ card.mounted
  /\ card.message.content = StringContent(Hello)
  /\ card.message.type = "system"
  /\ card.parsed.badgeType = "assistant"
  /\ card.contentExpanded
  /\ card.parsed.textContent[1].blocks[1].content = Hello

\* the tag unit k of the record sets, "none" when it sets none: tool for a
\* tool_use, thinking for reasoning, tool-result for a tool_result that
\* produced a standalone block
UnitTag(k) ==
  LET u == UnitsOf(card.message)[k] IN
  IF ~IsObject(u) THEN "none"
  ELSE IF u.type = "tool_use" THEN "tool"
  ELSE IF u.type = "thinking" THEN "thinking"
  ELSE IF /\ u.type = "tool_result"
          /\ \E b \in DOMAIN card.parsed.toolUseContent :
               /\ card.parsed.toolUseContent[b].block = "result"
               /\ card.parsed.toolUseContent[b].itemIndex = k
  THEN "tool-result"
  ELSE "none"

\* the tag of the last unit that sets one, else the badge of the record type
UnitBadge ==
  LET setters == {k \in DOMAIN UnitsOf(card.message) : UnitTag(k) # "none"} IN
  IF setters = {} THEN BaseBadge(card.message)
  ELSE UnitTag(CHOOSE k \in setters : \A j \in setters : j <= k)

\* C19, as stated: the badge is internal when isMeta; otherwise hook when
\* internalMessageType is 'hook'; otherwise internal when internalMessageType
\* is any other value that is not absent; otherwise the tag of the last
\* tool, tool-result or thinking unit; otherwise user or assistant.
C19_BadgeByPresence ==
  card.mounted =>
    card.parsed.badgeType =
      IF card.message.isMeta THEN "internal"
      ELSE IF card.message.internalMessageType = "hook" THEN "hook"
      ELSE IF card.message.internalMessageType # Undefined THEN "internal"
      ELSE UnitBadge

\* C19, amended: as stated, but internal is for an internalMessageType that
\* is any other non-empty value; an empty string counts as absent.
C19_BadgeByTruthiness ==
  card.mounted =>
    card.parsed.badgeType =
      IF card.message.isMeta THEN "internal"
      ELSE IF card.message.internalMessageType = "hook" THEN "hook"
      ELSE IF card.message.internalMessageType \notin {Undefined, ""} THEN "internal"
      ELSE UnitBadge

\* C19 witness: a record that is not meta, with the empty string as
\* internalMessageType, whose badge is the tag of its last tagging unit
C19_Witness ==
  /\ card.mounted
  /\ ~card.message.isMeta
  /\ card.message.internalMessageType = ""
  /\ Len(UnitsOf(card.message)) = 2
  /\ UnitTag(1) = "tool" /\ UnitTag(2) = "thinking"
  /\ card.parsed.badgeType = "thinking"

\* C20: a card is collapsed by default exactly when its record is meta, or
\* it has a tool block, or its badge is hook, tool, tool-result, internal or
\* thinking; a card expanded by default has the badge user or assistant and
\* no tool block.
C20_CollapsedByDefault ==
  card.mounted =>
    /\ card.isBackgroundMessageByDefault <=>
         \/ card.message.isMeta
         \/ Len(card.parsed.toolUseContent) >= 1
         \/ card.parsed.badgeType \in
              {"hook", "tool", "tool-result", "internal", "thinking"}
    /\ ~card.isBackgroundMessageByDefault =>
         /\ card.parsed.badgeType \in {"user", "assistant"}
         /\ card.parsed.toolUseContent = <<>>

\* C20 witness: a card collapsed by default for its thinking badge alone,
\* its record not meta and without tool block, and its content collapsed
C20_Witness ==
  /\ card.mounted
  /\ ~card.message.isMeta
  /\ card.parsed.toolUseContent = <<>>
  /\ card.parsed.badgeType = "thinking"
  /\ card.isBackgroundMessageByDefault
  /\ ~card.contentExpanded

\* C11: resolving a card and serializing a record never throw, whatever the
\* record: a content array holding null degrades to empty text as well
C11_NeverThrows ==
  card # NoCard =>
    /\ ~card.parsed.threw
    /\ ~GetMessageContent(card.message).threw

(***************************************************************************)
(* What the claims on an export speak of.                                  *)
(***************************************************************************)
\* the record holds no tool_use and no tool_result unit
NoToolUnit(message) ==
  \A k \in DOMAIN UnitsOf(message) :
    UnitsOf(message)[k].type \notin {"tool_use", "tool_result"}
\* the call returned after writing a whole JSON document
JsonWritten ==
  /\ exportRun.pc = "returned"
  /\ exportRun.options.format = "json"
  /\ exportRun.file.complete
\* the document a JSON export wrote
WrittenDocument == exportRun.file.content[1].json

\* C12: messageCount of a written JSON document is the number of input
\* records without tool_use and tool_result units when includeToolCalls is
\* false, the number of input records when it is true, and in both cases
\* the length of the document's messages array
C12_MessageCountCountsKeptRecords ==
  JsonWritten =>
    LET msgs == exportRun.messages IN
    /\ WrittenDocument.messageCount =
         IF exportRun.options.includeToolCalls THEN Len(msgs)
         ELSE Cardinality({i \in DOMAIN msgs : NoToolUnit(msgs[i])})
    /\ WrittenDocument.messageCount = Len(WrittenDocument.messages)
\* a document written without tool calls from a tool record and a plain one
C12_Witness ==
  /\ JsonWritten
  /\ ~exportRun.options.includeToolCalls
  /\ Len(exportRun.messages) = 2
  /\ \E i \in DOMAIN exportRun.messages :
       \E k \in DOMAIN UnitsOf(exportRun.messages[i]) :
         UnitsOf(exportRun.messages[i])[k].type = "tool_result"
  /\ WrittenDocument.messageCount = 1

\* C13: a returned call has resolved, never rejected; a cancelled picker and
\* a failure while serializing or writing give success false with an error;
\* success true is returned only with the file wholly written at the
\* chosen path
C13_FailuresAreReturnedValues ==
  exportRun.pc = "returned" =>
    /\ exportRun.returned.settled = "resolved"
    /\ (exportRun.canceled \/ Falsy(exportRun.filePath)) =>
         /\ ~exportRun.returned.success
         /\ exportRun.returned.error = "Export cancelled"
    /\ exportRun.threw =>
         /\ ~exportRun.returned.success
         /\ exportRun.returned.error \in {"TypeError", "EACCES", "ENOSPC"}
    /\ exportRun.returned.success =>
         /\ exportRun.file.complete
         /\ exportRun.file.path = exportRun.filePath
\* a write that failed after a conversion that did not
C13_Witness ==
  /\ exportRun.pc = "returned"
  /\ exportRun.serialized
  /\ exportRun.threw
  /\ exportRun.file = NoFile
  /\ exportRun.returned = Resolved(FALSE, Undefined, "EACCES")

(***************************************************************************)
(* What the claims on a tool label speak of.                               *)
(***************************************************************************)
\* the call was for Bash with a command that is a non-empty string
BashCommandCall ==
  /\ toolLabel.called
  /\ toolLabel.toolName = BashTool
  /\ toolLabel.input.kind = "object"
  /\ Get(toolLabel.input.items, KeyCommand).kind = "string"
  /\ Len(Get(toolLabel.input.items, KeyCommand).s) > 0

\* C14: for Bash with a non-empty command the label is the command when it
\* has at most 60 characters, and else its first 60 characters and '...'
C14_BashLabelCutAtSixty ==
  BashCommandCall =>
    LET c == Get(toolLabel.input.items, KeyCommand).s
        label == toolLabel.keyParams
    IN /\ ~label.null
       /\ Len(c) <= 60 => label.s = c
       /\ Len(c) > 60 =>
            /\ Len(label.s) = 63
            /\ \A i \in 1..60 : label.s[i] = c[i]
            /\ \A i \in 61..63 : label.s[i] = "."
\* a command of 100 characters labelled by 60 of them and three dots
C14_Witness ==
  /\ BashCommandCall
  /\ Len(Get(toolLabel.input.items, KeyCommand).s) = 100
  /\ Len(toolLabel.keyParams.s) = 63
  /\ toolLabel.keyParams.s[60] = Get(toolLabel.input.items, KeyCommand).s[60]
  /\ toolLabel.keyParams.s[61] = "."

(***************************************************************************)
(* What the claims on a preview speak of.                                  *)
(***************************************************************************)
\* the call returned a preview: the file it was made for can be accepted
PreviewReturned == previewCall.called /\ ~previewCall.returned.threw
\* a record of type user that is neither meta nor of an internal message type
IsPlainUser(msg) ==
  msg # JsNull /\ msg.type = "user" /\ ~msg.isMeta
  /\ msg.internalMessageType = Undefined
\* the text a record's content holds: the string, or the text units in order
TextContentOf(msg) ==
  IF msg.content.t = "string" THEN msg.content.s
  ELSE IF msg.content.t = "array"
  THEN Join([k \in DOMAIN msg.content.items |-> msg.content.items[k].text], 1)
  ELSE <<>>

\* C21: the preview is the placeholder exactly when firstMessages holds no
\* plain user record; otherwise it is the text of the first such record, its
\* first 100 characters with '...' appended if and only if it is longer,
\* and so never more than 103 characters
C21_PreviewIsFirstUserText ==
  PreviewReturned =>
    LET msgs == previewCall.firstMessages
        value == previewCall.returned.value
        plain == {i \in DOMAIN msgs : IsPlainUser(msgs[i])}
    IN /\ (value = NoUserMessageFound) <=> (plain = {})
       /\ plain # {} =>
            LET first == CHOOSE i \in plain : \A j \in plain : i <= j
                text == TextContentOf(msgs[first])
            IN /\ value = IF Len(text) > 100
                          THEN SubSeq(text, 1, 100) \o <<".", ".", ".">>
                          ELSE text
               /\ Len(value) <= 103

(***************************************************************************)
(* What the later claims on the index speak of.                            *)
(***************************************************************************)
\* no file of directory d was accepted
NothingAccepted(d) == \A i \in DOMAIN tree[d] : tree[d][i].outcome # "accepted"

\* C22: every project entry of the returned index holds a session, and a
\* directory without log file, or whose files were all skipped or rejected
\* as duplicates, has no entry
C22_NoEmptyProject ==
  Done =>
    /\ \A p \in DOMAIN result : Len(result[p].sessions) >= 1
    /\ \A d \in DOMAIN tree :
         NothingAccepted(d) => \A p \in DOMAIN result : result[p].path # d
\* an index with one entry, returned after a second directory whose files
\* were all skipped, one of them as the duplicate of an earlier session
C22_Witness ==
  /\ Done
  /\ Len(result) = 1
  /\ \E d \in DOMAIN tree :
       /\ tree[d] # <<>>
       /\ NothingAccepted(d)
       /\ \E i \in DOMAIN tree[d] : tree[d][i].outcome = "duplicate"

(***************************************************************************)
(* What the later claims on a single card speak of.                        *)
(***************************************************************************)
\* the places of the record's tool_use units with this id
ToolUsesOf(units, id) ==
  {k \in DOMAIN units : IsObject(units[k]) /\ units[k].type = "tool_use"
                         /\ units[k].id = id}
\* the blocks of the card of this kind and id
CardBlocks(kind, id) ==
  {b \in DOMAIN card.parsed.toolUseContent :
     /\ card.parsed.toolUseContent[b].block = kind
     /\ card.parsed.toolUseContent[b].id = id}

\* C23: in one record, an id given to several tool_use units has exactly one
\* tool block, made from the first of them, and no tool_result of the record
\* with the id of one of its tool_use units has a block of its own
C23_OneBlockPerToolId ==
  card.mounted =>
    LET units == UnitsOf(card.message) IN
    \A id \in {"t1", "t2"} :
      ToolUsesOf(units, id) # {} =>
        LET first == CHOOSE k \in ToolUsesOf(units, id) :
                       \A j \in ToolUsesOf(units, id) : k <= j
        IN /\ Cardinality(CardBlocks("tool", id)) = 1
           /\ \A b \in CardBlocks("tool", id) :
                /\ card.parsed.toolUseContent[b].itemIndex = first
                /\ card.parsed.toolUseContent[b].name = units[first].name
           /\ CardBlocks("result", id) = {}
\* two tool_use units with one id and different names, one block
C23_Witness ==
  /\ card.mounted
  /\ Cardinality(ToolUsesOf(UnitsOf(card.message), "t1")) = 2
  /\ UnitsOf(card.message)[1].name # UnitsOf(card.message)[2].name
  /\ Len(card.parsed.toolUseContent) = 1

(***************************************************************************)
(* What the later claims on an export speak of.                            *)
(***************************************************************************)
\* the places of the input records a written text holds, in its order
RecordsWritten ==
  IF exportRun.options.format = "json"
  THEN [i \in DOMAIN WrittenDocument.messages |-> WrittenDocument.messages[i].record]
  ELSE LET headings == SelectSeq(exportRun.file.content,
                                 LAMBDA line : line.kind = "heading")
       IN [i \in DOMAIN headings |-> headings[i].record]

\* C24: the structured text and the JSON document keep the same records in
\* input order: a record is dropped from both if and only if
\* includeToolCalls is false and its content has a tool_use or tool_result
C24_BothFormsKeepSameRecords ==
  exportRun.pc = "returned" =>
    LET msgs == exportRun.messages
        options == exportRun.options
        expected == SelectSeq([i \in DOMAIN msgs |-> i],
                              LAMBDA i : options.includeToolCalls
                                         \/ NoToolUnit(msgs[i]))
    IN /\ MarkdownKeptPlaces(msgs, options) = expected
       /\ JsonKeptPlaces(msgs, options) = expected
       /\ exportRun.file.complete => RecordsWritten = expected
\* a structured text written without the tool record of its two records
C24_Witness ==
  /\ exportRun.pc = "returned"
  /\ exportRun.options.format = "markdown"
  /\ ~exportRun.options.includeToolCalls
  /\ exportRun.file.complete
  /\ Len(exportRun.messages) = 2
  /\ ~NoToolUnit(exportRun.messages[1])
  /\ RecordsWritten = <<2>>

\* C30: a cancelled dialog, or one that returns no path, makes the call
\* serialize nothing and write no file; nothing is written before a
\* destination is chosen, and then at most one file, at the chosen path
C30_WritesOnlyToChosenPath ==
  /\ exportRun.pc = "dialog" =>
       ~exportRun.serialized /\ exportRun.writes = <<>>
  /\ exportRun.pc = "returned" =>
       /\ (exportRun.canceled \/ exportRun.filePath \in {Undefined, ""}) =>
            /\ ~exportRun.serialized
            /\ exportRun.writes = <<>>
            /\ exportRun.file = NoFile
       /\ Len(exportRun.writes) <= 1
       /\ \A k \in DOMAIN exportRun.writes :
            exportRun.writes[k] = exportRun.filePath
       /\ exportRun.file # NoFile => exportRun.file.path = exportRun.filePath
\* a call that returned after the dialog was cancelled with a path filled in
C30_Witness ==
  /\ exportRun.pc = "returned"
  /\ exportRun.canceled
  /\ exportRun.filePath = "/out"
  /\ exportRun.writes = <<>>
  /\ ~exportRun.serialized

(***************************************************************************)
(* What the later claims on a tool label speak of.                         *)
(***************************************************************************)
\* the call was for a tool without a rule of its own, with an object
OtherToolCall ==
  /\ toolLabel.called
  /\ toolLabel.toolName = McpTool
  /\ toolLabel.input.kind = "object"
\* the fields tried first, in their order
ListedFields ==
  <<KeyFilePath, KeyPath, KeyUrl, KeyQuery, KeyCommand, KeyName, KeyTitle,
    KeyTarget, KeyMessage, KeyContent, KeyText, KeyDescription, KeyInput>>
\* the field is present and its text is not blank
Qualifies(fields, key) ==
  /\ \E i \in DOMAIN fields : fields[i][1] = key
  /\ Get(fields, key).kind \notin {"null", "undefined"}
  /\ \E c \in DOMAIN StringOf(Get(fields, key)) :
       StringOf(Get(fields, key))[c] \notin {" ", "\n", "\t"}
\* what follows the last '/' of str, all of str when it has none
AfterLastSlash(str) ==
  IF \E i \in DOMAIN str : str[i] = "/"
  THEN LET last == CHOOSE i \in DOMAIN str :
                     str[i] = "/" /\ \A j \in (i + 1)..Len(str) : str[j] # "/"
       IN SubSeq(str, last + 1, Len(str))
  ELSE str
\* str cut to n characters plus '...', str itself when it is not longer
CutTo(str, n) ==
  IF Len(str) > n THEN SubSeq(str, 1, n) \o <<".", ".", ".">> ELSE str
\* the first n characters of str
FirstChars(str, n) == SubSeq(str, 1, IF Len(str) < n THEN Len(str) ELSE n)
\* the first listed field that qualifies, 0 when none does
FirstListed(fields) ==
  IF \E k \in DOMAIN ListedFields : Qualifies(fields, ListedFields[k])
  THEN CHOOSE k \in DOMAIN ListedFields :
         /\ Qualifies(fields, ListedFields[k])
         /\ \A j \in 1..(k - 1) : ~Qualifies(fields, ListedFields[j])
  ELSE 0
\* the first field that is a non-blank string under a key without a leading
\* underscore, 0 when there is none
FirstPlainString(fields) ==
  LET plain(i) == /\ fields[i][2].kind = "string"
                  /\ Qualifies(fields, fields[i][1])
                  /\ fields[i][1][1] # "_"
  IN IF \E i \in DOMAIN fields : plain(i)
     THEN CHOOSE i \in DOMAIN fields : plain(i) /\ \A j \in 1..(i - 1) : ~plain(j)
     ELSE 0

\* C29 as stated: a path-like field gives its last path segment, url its
\* hostname, another listed field its value cut to 50 characters plus
\* '...'; without a listed field the label is the first non-blank string
\* field whose key has no leading underscore; else null
C29_LabelOfOtherTool ==
  OtherToolCall =>
    LET fields == toolLabel.input.items
        label == toolLabel.keyParams
        k == FirstListed(fields)
        f == FirstPlainString(fields)
    IN IF k # 0
       THEN LET key == ListedFields[k]
                value == StringOf(Get(fields, key))
            IN /\ ~label.null
               /\ label.s = IF key \in {KeyFilePath, KeyPath}
                            THEN AfterLastSlash(value)
                            ELSE IF key = KeyUrl
                            THEN ParseHostname(value).hostname
                            ELSE CutTo(value, 50)
               /\ key = KeyUrl => ParseHostname(value).ok
       ELSE IF f # 0 THEN ~label.null /\ label.s = fields[f][2].s
       ELSE label.null

\* C29, amended: a path-like field gives what follows its last '/', or all
\* of it when nothing follows; url gives its hostname, or its first 40
\* characters when it is no URL; another listed field gives its value cut
\* to 50 characters plus '...' when longer; without a listed field the label
\* is the first non-blank string field whose key has no leading underscore,
\* cut in the same way; else null
C29_LabelOfOtherToolWithFallbacks ==
  OtherToolCall =>
    LET fields == toolLabel.input.items
        label == toolLabel.keyParams
        k == FirstListed(fields)
        f == FirstPlainString(fields)
    IN IF k # 0
       THEN LET key == ListedFields[k]
                value == StringOf(Get(fields, key))
            IN /\ ~label.null
               /\ label.s = IF key \in {KeyFilePath, KeyPath}
                            THEN (IF Len(AfterLastSlash(value)) = 0 THEN value
                                  ELSE AfterLastSlash(value))
                            ELSE IF key = KeyUrl
                            THEN (IF ParseHostname(value).ok
                                  THEN ParseHostname(value).hostname
                                  ELSE FirstChars(value, 40))
                            ELSE CutTo(value, 50)
       ELSE IF f # 0 THEN ~label.null /\ label.s = CutTo(fields[f][2].s, 50)
       ELSE label.null
\* a command passed over for a url that comes second in the input and is no
\* URL: its first 40 characters are the label
C29_Witness ==
  /\ OtherToolCall
  /\ Len(toolLabel.input.items) = 2
  /\ toolLabel.input.items[1][1] = KeyCommand
  /\ Qualifies(toolLabel.input.items, KeyCommand)
  /\ toolLabel.input.items[2][1] = KeyUrl
  /\ Len(toolLabel.input.items[2][2].s) = 41
  /\ ~toolLabel.keyParams.null
  /\ toolLabel.keyParams.s = SubSeq(toolLabel.input.items[2][2].s, 1, 40)

(***************************************************************************)
(* What the claims on the steps of a scan speak of.                        *)
(***************************************************************************)
\* the step processes a file
FileProcessed == pc = "files" /\ fileIdx' = fileIdx + 1
\* how the file processed by the step ended
OutcomeOfStep == tree'[dirIdx][fileIdx].outcome

\* C26: a step that skips a file, for whatever reason, leaves the seen set
\* and the accepted sessions as they were, and an id enters the seen set
\* only in a step that accepts a summary for it
C26_SkippedFileChangesNothing ==
  [][FileProcessed =>
       /\ OutcomeOfStep # "accepted" =>
            seenSessionIds' = seenSessionIds /\ sessions' = sessions
       /\ \A id \in seenSessionIds' \ seenSessionIds :
            /\ Len(sessions') = Len(sessions) + 1
            /\ sessions'[Len(sessions')].sessionId = id]_vars

\* the places of the files of a disk in enumeration order, from directory d on
RECURSIVE EnumerationOrder(_, _)
EnumerationOrder(dsk, d) ==
  IF d > Len(dsk.dirs) THEN <<>>
  ELSE [i \in 1..Len(dsk.dirs[d]) |-> <<d, i>>] \o EnumerationOrder(dsk, d + 1)

\* the files before the n-th of the enumeration have been fully processed,
\* in that order, and no other
ProcessedUpTo(l, n) == l.processed = SubSeq(EnumerationOrder(disk, 1), 1, n - 1)

\* C25: within one scan at most one file is being read at any time, and the
\* file being read is the next of the enumeration order after the files
\* already fully processed (accepted or skipped): its read started only after
\* all of them were processed, and no file after it has been touched. A scan
\* that returned has no read left and processed every file once, in order.
C25_OneReadAtATime ==
  \A k \in DOMAIN scans :
    LET l == scans[k]
        order == EnumerationOrder(disk, 1)
    IN /\ Cardinality(l.inflight) <= 1
       /\ l.pc = "awaiting" =>
            \E n \in DOMAIN order : l.inflight = {order[n]} /\ ProcessedUpTo(l, n)
       /\ l.pc = "done" => l.inflight = {} /\ l.processed = order

\* a scan waits for the read of the second file of a directory, whose first
\* file it accepted
C25_Witness ==
  \E k \in DOMAIN scans :
    /\ scans[k].pc = "awaiting"
    /\ scans[k].inflight = {<<1, 2>>}
    /\ scans[k].processed = <<(<<1, 1>>)>>
    /\ Len(scans[k].sessions) = 1

\* the indexes a call returns when no other call runs: every read resolves
\* before anything else happens
RECURSIVE AloneResults(_, _)
AloneResults(l, dsk) ==
  IF l.pc = "done" THEN {l.result}
  ELSE UNION {AloneResults(l2, dsk) :
                l2 \in UNION {ResumeAfterRead(l, dsk, pos) : pos \in l.inflight}}

\* the indexes of a scan of the disk run alone
IndexesAlone(dsk) ==
  UNION {AloneResults(l, dsk) : l \in StartOfScan({}, dsk)}

\* the session ids of an index
IdsOfIndex(index) ==
  UNION {{index[p].sessions[i].sessionId : i \in DOMAIN index[p].sessions} :
           p \in DOMAIN index}

\* C27: two scans interleaved at their file reads share no dedup state: each
\* returns an index a scan of the same files returns when run alone, and
\* while it runs its seen set holds only ids of files it processed itself,
\* so no session is dropped because the other scan saw its id first.
C27_OverlappingScansIndependent ==
  \A k \in DOMAIN scans :
    /\ scans[k].seenSessionIds \subseteq
         UNION {FileStep({}, <<>>,
                         disk.dirs[scans[k].processed[i][1]]
                                  [scans[k].processed[i][2]],
                         scans[k].processed[i][1],
                         scans[k].processed[i]).seen :
                  i \in DOMAIN scans[k].processed}
    /\ scans[k].pc = "done" => scans[k].result \in IndexesAlone(disk)

\* both scans of a disk of two files returned the same index with a session,
\* the second having started while the first waited for a read
C27_Witness ==
  /\ Len(scans) = 2
  /\ \A k \in DOMAIN scans : scans[k].pc = "done"
  /\ scans[2].overlapped
  /\ Len(EnumerationOrder(disk, 1)) = 2
  /\ IdsOfIndex(scans[1].result) # {}
  /\ scans[2].result = scans[1].result

\* the session changed while a load was in flight, and every load has
\* settled, the one of the session selected last with a response
ChangedAndSettled ==
  /\ race # NoRace
  /\ race.selections > 1
  /\ race.pending = {}
  /\ race.selections \in race.resolved

\* C28: when the selected session changes while the load of the session
\* selected before is in flight, then once all loads have settled the
\* displayed records are those of the session selected last, in whatever
\* order the responses arrived, and the loading flag is false.
C28_LatestSelectionShown ==
  ChangedAndSettled =>
    /\ race.messages = DetailsOf(race.session)
    /\ ~race.loading

\* the flag alone: no load pending, no spinner
SettledNotLoading ==
  (race # NoRace /\ race.pending = {}) => ~race.loading

====
